---------------------------- MODULE Spec2Model ----------------------------
(***************************************************************************)
(* Motor-control subsystem of the solar tracking system:                   *)
(*   - the kernel driver  linux-driver/Servo-Stepper.c  (probe, remove,    *)
(*     gpio_write, gpio_read),                                             *)
(*   - the user-space controller  linux-driver/main.c  (moveServo,         *)
(*     writeStepperPin, rotateStepper, parseSunDirection, main).           *)
(* Text is modelled as sequences of one-character strings.                 *)
(***************************************************************************)
EXTENDS Integers, Sequences, FiniteSets, TLC

(***************************************************************************)
(* Program constants                                                       *)
(***************************************************************************)
MAX_DEVICES == 5
SERVO_GPIO == 18
STEPPER_GPIO_BASE == 22
SERVO_MIN_ANGLE == 0
SERVO_MAX_ANGLE == 180
SERVO_MIN_DUTY == 500
SERVO_MAX_DUTY == 2500
SERVO_PERIOD == 20000
KBUF_SIZE == 32
READ_KBUF_SIZE == 64
EINVAL == 22
EFAULT == 14
EBUSY == 16
ENOMEM == 12
INT_MAX == 2147483647

servo_gpio == SERVO_GPIO
stepper_gpio_base == STEPPER_GPIO_BASE

\* the five physical lines, by GPIO number
Lines == {servo_gpio} \cup {stepper_gpio_base + k : k \in 0..3}
PhaseLines == {stepper_gpio_base + k : k \in 0..3}

step_sequence ==
  << <<1, 0, 0, 1>>,
     <<1, 1, 0, 0>>,
     <<0, 1, 1, 0>>,
     <<0, 0, 1, 1>> >>

(***************************************************************************)
(* Bounds of the model                                                     *)
(***************************************************************************)
\* largest minor number a caller addresses (5 is the first invalid one)
MaxMinor == 5
\* at most this many lines are held by another entity when the driver loads
MaxForeign == 1

(***************************************************************************)
(* Text helpers                                                            *)
(***************************************************************************)
Digits == <<"0", "1", "2", "3", "4", "5", "6", "7", "8", "9">>

IsDigit(c) == \E d \in 1..10 : Digits[d] = c

DigitVal(c) == (CHOOSE d \in 1..10 : Digits[d] = c) - 1

RECURSIVE DecNat(_)
\* "%u" of a natural number
DecNat(n) == IF n < 10 THEN <<Digits[n + 1]>>
             ELSE DecNat(n \div 10) \o <<Digits[(n % 10) + 1]>>

\* "%d" of an integer
Dec(n) == IF n < 0 THEN <<"-">> \o DecNat(0 - n) ELSE DecNat(n)

\* the first n characters of s (snprintf / copy_to_user truncation)
Take(s, n) == IF n >= Len(s) THEN s ELSE SubSeq(s, 1, n)

\* a C string stops at its first NUL
CStr(s) ==
  IF \E k \in 1..Len(s) : s[k] = "NUL"
  THEN SubSeq(s, 1, (CHOOSE k \in 1..Len(s) :
                       s[k] = "NUL" /\ \A m \in 1..(k - 1) : s[m] # "NUL") - 1)
  ELSE s

\* the character c, n times
Repeat(c, n) == [k \in 1..n |-> c]

(***************************************************************************)
(* kstrtoint(s, 10, &res) of the kernel: optional sign, decimal digits,    *)
(* one optional trailing newline.  Result [ok, val].                       *)
(***************************************************************************)
\* number of leading digits of s
DigitRun(s) ==
  IF \E k \in 1..Len(s) : ~IsDigit(s[k])
  THEN (CHOOSE k \in 1..Len(s) :
          ~IsDigit(s[k]) /\ \A m \in 1..(k - 1) : IsDigit(s[m])) - 1
  ELSE Len(s)

INT_MIN == (0 - INT_MAX) - 1

RECURSIVE Accumulate(_, _, _)
\* _parse_integer followed by the range checks of kstrtoll / kstrtoint: the
\* digits of s are accumulated into acc (downwards when neg); ok is FALSE as
\* soon as the value leaves the range of int, which is what the chain
\* unsigned long long -> long long -> int of the kernel reports as -ERANGE.
Accumulate(s, acc, neg) ==
  IF s = <<>> THEN [ok |-> TRUE, val |-> acc]
  ELSE LET d == DigitVal(Head(s))
       IN IF neg
          THEN IF acc < (INT_MIN + d + 9) \div 10
               THEN [ok |-> FALSE, val |-> 0]
               ELSE Accumulate(Tail(s), (acc * 10) - d, neg)
          ELSE IF acc > (INT_MAX - d) \div 10
               THEN [ok |-> FALSE, val |-> 0]
               ELSE Accumulate(Tail(s), (acc * 10) + d, neg)

\* _kstrtoull: digits, then one optional "\n", then the end of the string
kstrtoull_(s, neg) ==
  LET rv   == DigitRun(s)
      rest == SubSeq(s, rv + 1, Len(s))
      tail == IF rest # <<>> /\ rest[1] = "\n" THEN Tail(rest) ELSE rest
  IN IF rv = 0 \/ tail # <<>>
     THEN [ok |-> FALSE, val |-> 0]
     ELSE Accumulate(SubSeq(s, 1, rv), 0, neg)

\* a parser that skips what it does not understand
kstrtoint_lenient(str) ==
  LET ds == SelectSeq(CStr(str), IsDigit)
  IN IF ds = <<>> THEN [ok |-> FALSE, val |-> 0]
     ELSE Accumulate(ds, 0, FALSE)

kstrtoint(str) ==
  LET s == CStr(str)
  IN IF s # <<>> /\ s[1] = "-"
     THEN kstrtoull_(Tail(s), TRUE)
     ELSE kstrtoull_(IF s # <<>> /\ s[1] = "+" THEN Tail(s) ELSE s, FALSE)

(***************************************************************************)
(* State                                                                   *)
(***************************************************************************)
VARIABLES
  drv,          \* driver lifecycle: position in plat_drv_probe / plat_drv_remove
  probe_i,      \* the loop variable i of probe / remove
  err,          \* err of probe (0, or the negative error it returns)
  endpoints,    \* minors whose cdev is added and whose device node exists
  owner,        \* per line: "none", "driver" (requested by probe) or "other"
  level,        \* per line: the level the line is driven to
  servo_angle,  \* static int servo_angle
  pulse,        \* the servo write in progress inside gpio_write
  sys,          \* the system call in progress or just returned, with its result
  app,          \* the user-space function in progress (main.c)
  fnret,        \* what the last user-space function returned
  applied,      \* rows of stepSequence applied by the rotateStepper in progress
  stream,       \* bytes of the serial line not yet read by fgets
  line,         \* char line[256] of main, as left by fgets and strcspn
  actions,      \* motor functions main has called, in order
  mainpc,       \* position of main in its control loop ("off": main not running)
  consumed,     \* what fgets has returned to main so far, oldest first
  recorded,     \* the rotateStepper calls a test program has recorded
  before,       \* level and servo_angle as they were when the call in sys/app began
  peer          \* the rotateStepper in progress in a second process

vars == <<drv, probe_i, err, endpoints, owner, level, servo_angle, pulse, sys,
          app, fnret, applied, stream, line, actions, mainpc, consumed,
          recorded, before, peer>>

drvVars == <<drv, probe_i, err, endpoints, owner>>
appVars == <<app, fnret, applied, stream, line, actions, mainpc, consumed,
            recorded, before, peer>>
mainVars == <<applied, stream, line, actions, mainpc, consumed, recorded>>

Minors == 0..(MAX_DEVICES - 1)

\* the line behind minor 1..4
PhaseGpio(minor) == stepper_gpio_base + (minor - 1)

NoPulse == [st |-> "idle", value |-> 0, count |-> 0, duty |-> 0]
NoSys == [op |-> "none", minor |-> 0, ubuf |-> <<>>, count |-> 0, f_pos |-> 0,
          fault |-> FALSE, ret |-> 0, data |-> <<>>]
NoSnap == [level |-> <<>>, servo_angle |-> 0]
Snapshot == [level |-> level, servo_angle |-> servo_angle]
Idle == [fn |-> "idle"]
PENDING == 0 - 1000

(***************************************************************************)
(* GPIO subsystem as the driver uses it                                    *)
(***************************************************************************)
\* gpio_request_one(gpio, GPIOF_OUT_INIT_LOW, label) succeeds on a free line
CanRequest(gpio) == owner[gpio] = "none"

\* levels a line can take after gpio_set_value(gpio, v): a line requested
\* by the driver is an output and takes v; on a line the driver did not
\* request the effect depends on how that line is configured
SetOutcomes(gpio, v) ==
  IF owner[gpio] = "driver" THEN {v} ELSE {v, level[gpio]}

(***************************************************************************)
(* plat_drv_probe, one action per call it makes                            *)
(***************************************************************************)
\* alloc_chrdev_region
ProbeAlloc(ok) ==
  /\ drv = "unbound"
  /\ IF ok
     THEN /\ drv' = "class_create"
          /\ err' = 0
     ELSE /\ drv' = "failed"
          /\ err' = 0 - ENOMEM
  /\ UNCHANGED <<probe_i, endpoints, owner, level, servo_angle, pulse, sys>>
  /\ UNCHANGED appVars

\* class_create; on failure the region is given back and probe returns
ProbeClass(ok) ==
  /\ drv = "class_create"
  /\ IF ok
     THEN /\ drv' = "cdev_add"
          /\ probe_i' = 0
          /\ err' = err
     ELSE /\ drv' = "failed"
          /\ err' = 0 - ENOMEM
          /\ probe_i' = probe_i
  /\ UNCHANGED <<endpoints, owner, level, servo_angle, pulse, sys>>
  /\ UNCHANGED appVars

\* one iteration of the loop "Create device files": cdev_add + device_create
ProbeCdev(ok) ==
  /\ drv = "cdev_add"
  /\ IF ok
     THEN /\ endpoints' = endpoints \cup {probe_i}
          /\ probe_i' = probe_i + 1
          /\ drv' = IF probe_i + 1 < MAX_DEVICES THEN "cdev_add" ELSE "request_servo"
          /\ err' = 0
     ELSE /\ err' = 0 - ENOMEM
          /\ drv' = "cleanup_cdev"
          /\ probe_i' = probe_i - 1
          /\ endpoints' = endpoints
  /\ UNCHANGED <<owner, level, servo_angle, pulse, sys>>
  /\ UNCHANGED appVars

\* gpio_request_one(servo_gpio, GPIOF_OUT_INIT_LOW, ...)
ProbeServo ==
  /\ drv = "request_servo"
  /\ IF CanRequest(servo_gpio)
     THEN /\ owner' = [owner EXCEPT ![servo_gpio] = "driver"]
          /\ level' = [level EXCEPT ![servo_gpio] = 0]
          /\ err' = 0
          /\ drv' = "request_stepper"
          /\ probe_i' = 0
     ELSE /\ err' = 0 - EBUSY
          /\ drv' = "cleanup_cdev"
          /\ probe_i' = probe_i - 1
          /\ UNCHANGED <<owner, level>>
  /\ UNCHANGED <<endpoints, servo_angle, pulse, sys>>
  /\ UNCHANGED appVars

\* one iteration of the loop requesting the stepper lines
ProbeStepper ==
  /\ drv = "request_stepper"
  /\ IF CanRequest(stepper_gpio_base + probe_i)
     THEN /\ owner' = [owner EXCEPT ![stepper_gpio_base + probe_i] = "driver"]
          /\ level' = [level EXCEPT ![stepper_gpio_base + probe_i] = 0]
          /\ err' = 0
          /\ probe_i' = probe_i + 1
          /\ drv' = IF probe_i + 1 < 4 THEN "request_stepper" ELSE "bound"
     ELSE /\ err' = 0 - EBUSY
          /\ drv' = "cleanup_gpio"
          /\ probe_i' = probe_i - 1
          /\ UNCHANGED <<owner, level>>
  /\ UNCHANGED <<endpoints, servo_angle, pulse, sys>>
  /\ UNCHANGED appVars

\* cleanup_gpio without the gpio_free(servo_gpio) that follows its loop
CleanupGpio_leak ==
  /\ drv = "cleanup_gpio"
  /\ IF probe_i >= 0
     THEN /\ owner' = [owner EXCEPT ![stepper_gpio_base + probe_i] = "none"]
          /\ probe_i' = probe_i - 1
          /\ drv' = drv
     ELSE /\ owner' = owner
          /\ probe_i' = probe_i - 1
          /\ drv' = "cleanup_cdev"
  /\ UNCHANGED <<err, endpoints, level, servo_angle, pulse, sys>>
  /\ UNCHANGED appVars

\* cleanup_gpio: for (i = i - 1; i >= 0; i--) gpio_free(stepper_gpio_base + i);
\* then gpio_free(servo_gpio), then control falls into cleanup_cdev, whose
\* loop starts with i = i - 1
CleanupGpio ==
  /\ drv = "cleanup_gpio"
  /\ IF probe_i >= 0
     THEN /\ owner' = [owner EXCEPT ![stepper_gpio_base + probe_i] = "none"]
          /\ probe_i' = probe_i - 1
          /\ drv' = drv
     ELSE /\ owner' = [owner EXCEPT ![servo_gpio] = "none"]
          /\ probe_i' = probe_i - 1
          /\ drv' = "cleanup_cdev"
  /\ UNCHANGED <<err, endpoints, level, servo_angle, pulse, sys>>
  /\ UNCHANGED appVars

\* cleanup_cdev: for (...; i >= 0; i--) { device_destroy; cdev_del; } then
\* class_destroy, unregister_chrdev_region, return err
CleanupCdev ==
  /\ drv = "cleanup_cdev"
  /\ IF probe_i >= 0
     THEN /\ endpoints' = endpoints \ {probe_i}
          /\ probe_i' = probe_i - 1
          /\ drv' = drv
     ELSE /\ drv' = "failed"
          /\ UNCHANGED <<endpoints, probe_i>>
  /\ UNCHANGED <<err, owner, level, servo_angle, pulse, sys>>
  /\ UNCHANGED appVars

(***************************************************************************)
(* plat_drv_remove, one action per call it makes                           *)
(***************************************************************************)
\* gpio_free(servo_gpio)
RemoveServo ==
  /\ drv = "bound"
  /\ pulse.st = "idle"
  /\ owner' = [owner EXCEPT ![servo_gpio] = "none"]
  /\ drv' = "free_stepper"
  /\ probe_i' = 0
  /\ UNCHANGED <<err, endpoints, level, servo_angle, pulse, sys>>
  /\ UNCHANGED appVars

\* gpio_free(stepper_gpio_base + i)
RemoveStepper ==
  /\ drv = "free_stepper"
  /\ owner' = [owner EXCEPT ![stepper_gpio_base + probe_i] = "none"]
  /\ probe_i' = IF probe_i + 1 < 4 THEN probe_i + 1 ELSE 0
  /\ drv' = IF probe_i + 1 < 4 THEN "free_stepper" ELSE "destroy"
  /\ UNCHANGED <<err, endpoints, level, servo_angle, pulse, sys>>
  /\ UNCHANGED appVars

\* device_destroy + cdev_del of minor i; after the last one class_destroy and
\* unregister_chrdev_region
RemoveDevice ==
  /\ drv = "destroy"
  /\ endpoints' = endpoints \ {probe_i}
  /\ probe_i' = probe_i + 1
  /\ drv' = IF probe_i + 1 < MAX_DEVICES THEN "destroy" ELSE "unbound"
  /\ UNCHANGED <<err, owner, level, servo_angle, pulse, sys>>
  /\ UNCHANGED appVars

(***************************************************************************)
(* gpio_write                                                              *)
(***************************************************************************)
\* value < SERVO_MIN_ANGLE || value > SERVO_MAX_ANGLE is what gets rejected
AngleInRange_upper(value) == value <= SERVO_MAX_ANGLE

AngleInRange(value) == value >= SERVO_MIN_ANGLE /\ value <= SERVO_MAX_ANGLE

\* value != 0 && value != 1 is what gets rejected
IsLevel(value) == value = 0 \/ value = 1

IsPhaseMinor(minor) == minor >= 1 /\ minor <= 4

\* the same where the division is made before the multiplication
duty_cycle_scaled(value) ==
  SERVO_MIN_DUTY + (value * ((SERVO_MAX_DUTY - SERVO_MIN_DUTY) \div SERVO_MAX_ANGLE))

duty_cycle(value) ==
  SERVO_MIN_DUTY + ((value * (SERVO_MAX_DUTY - SERVO_MIN_DUTY)) \div SERVO_MAX_ANGLE)

Rejected(e) == [ret |-> 0 - e, act |-> "none", value |-> 0]

\* the final else of gpio_write: neither minor 0 nor minor 1..4
BadMinor_silent(count) == [ret |-> count, act |-> "none", value |-> 0]

BadMinor(count) == Rejected(EINVAL)

\* What gpio_write decides for a call with count = Len(ubuf) bytes at ubuf
\* (fault: copy_from_user fails): the value it returns and what it does to
\* the hardware, "pulse" (servo) or "set" (one phase line) or nothing.
gpio_write(minor, ubuf, fault) ==
  LET count == Len(ubuf)
      r     == kstrtoint(ubuf)
  IN IF count >= KBUF_SIZE THEN Rejected(EINVAL)
     ELSE IF fault THEN Rejected(EFAULT)
     ELSE IF minor = 0
          THEN IF ~r.ok THEN Rejected(EINVAL)
               ELSE IF ~AngleInRange(r.val) THEN Rejected(EINVAL)
               ELSE [ret |-> count, act |-> "pulse", value |-> r.val]
     ELSE IF IsPhaseMinor(minor)
          THEN IF ~r.ok THEN Rejected(EINVAL)
               ELSE IF ~IsLevel(r.val) THEN Rejected(EINVAL)
               ELSE [ret |-> count, act |-> "set", value |-> r.val]
     ELSE BadMinor(count)

WriteCall(minor, ubuf, fault, ret) ==
  [op |-> "write", minor |-> minor, ubuf |-> ubuf, count |-> Len(ubuf),
   f_pos |-> 0, fault |-> fault, ret |-> ret, data |-> <<>>]

\* the same where a phase write also sets the other three phase lines low
GpioWrite_exclusive(minor, ubuf, fault) ==
  \E w \in {gpio_write(minor, ubuf, fault)} :
     /\ pulse.st = "idle"
     /\ CASE w.act = "none" ->
               UNCHANGED <<level, pulse>>
          [] w.act = "set" ->
               /\ level' = [l \in Lines |->
                              IF l = PhaseGpio(minor) THEN w.value
                              ELSE IF l \in PhaseLines THEN 0
                              ELSE level[l]]
               /\ UNCHANGED pulse
          [] w.act = "pulse" ->
               /\ \E v \in SetOutcomes(servo_gpio, 1) :
                     level' = [level EXCEPT ![servo_gpio] = v]
               /\ pulse' = [st |-> "high", value |-> w.value, count |-> w.ret,
                            duty |-> duty_cycle(w.value)]
     /\ UNCHANGED servo_angle

\* What the body of gpio_write does to the hardware; a servo pulse is left
\* in progress (line high) and completed by PulseLow and PulseDone
GpioWrite(minor, ubuf, fault) ==
  \E w \in {gpio_write(minor, ubuf, fault)} :
     /\ pulse.st = "idle"
     /\ CASE w.act = "none" ->
               UNCHANGED <<level, pulse>>
          [] w.act = "set" ->
               /\ \E v \in SetOutcomes(PhaseGpio(minor), w.value) :
                     level' = [level EXCEPT ![PhaseGpio(minor)] = v]
               /\ UNCHANGED pulse
          [] w.act = "pulse" ->
               /\ \E v \in SetOutcomes(servo_gpio, 1) :
                     level' = [level EXCEPT ![servo_gpio] = v]
               /\ pulse' = [st |-> "high", value |-> w.value, count |-> w.ret,
                            duty |-> duty_cycle(w.value)]
     /\ UNCHANGED servo_angle

\* what write has returned so far: nothing yet while the pulse is running
WriteResult(minor, ubuf, fault) ==
  LET w == gpio_write(minor, ubuf, fault)
  IN IF w.act = "pulse" THEN PENDING ELSE w.ret

\* write(fd, ubuf, count) on the endpoint with this minor
SysWrite(minor, ubuf, fault) ==
  /\ GpioWrite(minor, ubuf, fault)
  /\ sys' = WriteCall(minor, ubuf, fault, WriteResult(minor, ubuf, fault))

\* udelay(duty_cycle) is over: gpio_set_value(servo_gpio, 0)
PulseLow ==
  /\ pulse.st = "high"
  /\ \E v \in SetOutcomes(servo_gpio, 0) :
        level' = [level EXCEPT ![servo_gpio] = v]
  /\ pulse' = [pulse EXCEPT !.st = "low"]
  /\ UNCHANGED <<servo_angle, sys>>
  /\ UNCHANGED drvVars
  /\ UNCHANGED peer
  /\ UNCHANGED appVars

\* the same without the assignment servo_angle = value
PulseDone_stale ==
  /\ pulse.st = "low"
  /\ servo_angle' = servo_angle
  /\ sys' = [sys EXCEPT !.ret = pulse.count]
  /\ pulse' = NoPulse
  /\ UNCHANGED level
  /\ UNCHANGED drvVars
  /\ UNCHANGED peer
  /\ UNCHANGED appVars

\* udelay(SERVO_PERIOD - duty_cycle) is over: servo_angle = value; return count
PulseDone ==
  /\ pulse.st = "low"
  /\ servo_angle' = pulse.value
  /\ sys' = [sys EXCEPT !.ret = pulse.count]
  /\ pulse' = NoPulse
  /\ UNCHANGED level
  /\ UNCHANGED drvVars
  /\ UNCHANGED peer
  /\ UNCHANGED appVars

(***************************************************************************)
(* gpio_read                                                               *)
(***************************************************************************)
ServoText(angle) ==
  <<"S", "e", "r", "v", "o", " ", "a", "n", "g", "l", "e", ":", " ">>
  \o Dec(angle)
  \o <<" ", "d", "e", "g", "r", "e", "e", "s", "\n">>

PinText(minor, value) ==
  <<"S", "t", "e", "p", "p", "e", "r", " ", "p", "i", "n", " ">>
  \o Dec(minor) \o <<":", " ">> \o Dec(value) \o <<"\n">>

\* What gpio_read returns for a call with a buffer of count bytes at file
\* position f_pos (fault: copy_to_user fails), and the bytes it delivers
gpio_read(minor, count, f_pos, fault) ==
  LET text == IF minor = 0 THEN ServoText(servo_angle)
              ELSE PinText(minor, level[PhaseGpio(minor)])
      len  == IF Len(text) > count THEN count ELSE Len(text)
  IN IF f_pos > 0 THEN [ret |-> 0, data |-> <<>>]
     ELSE IF ~(minor = 0 \/ IsPhaseMinor(minor)) THEN [ret |-> 0 - EINVAL, data |-> <<>>]
     ELSE IF fault THEN [ret |-> 0 - EFAULT, data |-> <<>>]
     ELSE [ret |-> len, data |-> Take(Take(text, READ_KBUF_SIZE - 1), len)]

\* the same where a read of the servo endpoint resets the angle it reports
SysRead_resetting(minor, count, f_pos, fault) ==
  LET r == gpio_read(minor, count, f_pos, fault)
  IN /\ pulse.st = "idle"
     /\ sys' = [op |-> "read", minor |-> minor, ubuf |-> <<>>, count |-> count,
                f_pos |-> f_pos, fault |-> fault, ret |-> r.ret, data |-> r.data]
     /\ servo_angle' = IF minor = 0 THEN 0 ELSE servo_angle
     /\ UNCHANGED <<level, pulse>>

\* read(fd, buf, count) on the endpoint with this minor
SysRead(minor, count, f_pos, fault) ==
  LET r == gpio_read(minor, count, f_pos, fault)
  IN /\ pulse.st = "idle"
     /\ sys' = [op |-> "read", minor |-> minor, ubuf |-> <<>>, count |-> count,
                f_pos |-> f_pos, fault |-> fault, ret |-> r.ret, data |-> r.data]
     /\ UNCHANGED <<level, servo_angle, pulse>>

(***************************************************************************)
(* A process that opens an endpoint, issues one system call on it and      *)
(* closes it.  open succeeds on a registered endpoint; a minor outside     *)
(* 0..4 is passed to the handler, whose own test of the minor decides.     *)
(***************************************************************************)
CanOpen(minor) == minor \in endpoints \/ minor \notin Minors

\* the test process is between two calls
TestIdle == mainpc = "off" /\ app.fn = "idle" /\ sys.op = "none"

DevWrite(minor, ubuf, fault) ==
  /\ mainpc = "off"
  /\ app.fn = "idle"
  /\ sys.op = "none"
  /\ CanOpen(minor)
  /\ SysWrite(minor, ubuf, fault)
  /\ before' = Snapshot
  /\ UNCHANGED drvVars
  /\ UNCHANGED peer
  /\ UNCHANGED <<app, fnret>>
  /\ UNCHANGED mainVars

DevRead(minor, count, f_pos, fault) ==
  /\ mainpc = "off"
  /\ app.fn = "idle"
  /\ sys.op = "none"
  /\ CanOpen(minor)
  /\ SysRead(minor, count, f_pos, fault)
  /\ before' = Snapshot
  /\ UNCHANGED drvVars
  /\ UNCHANGED peer
  /\ UNCHANGED <<app, fnret>>
  /\ UNCHANGED mainVars

\* the call has returned: close(fd)
DevClose ==
  /\ mainpc = "off"
  /\ app.fn = "idle"
  /\ sys.op # "none"
  /\ sys.ret # PENDING
  /\ sys' = NoSys
  /\ before' = NoSnap
  /\ UNCHANGED <<level, servo_angle, pulse>>
  /\ UNCHANGED drvVars
  /\ UNCHANGED peer
  /\ UNCHANGED <<app, fnret>>
  /\ UNCHANGED mainVars

(***************************************************************************)
(* Specification Spec: the driver lifecycle, with a process writing to     *)
(* whatever endpoints exist at the moment.                                 *)
(***************************************************************************)
ForeignSets == { S \in SUBSET Lines : Cardinality(S) <= MaxForeign }

LifePayloads == { <<"0">>, <<"1">> }

InitDriver(foreign) ==
  /\ drv = "unbound"
  /\ probe_i = 0
  /\ err = 0
  /\ endpoints = {}
  /\ owner = [l \in Lines |-> IF l \in foreign THEN "other" ELSE "none"]
  /\ level = [l \in Lines |-> 0]
  /\ servo_angle = 0
  /\ pulse = NoPulse
  /\ sys = NoSys

InitApp ==
  /\ app = Idle
  /\ peer = Idle
  /\ fnret = 0
  /\ applied = <<>>
  /\ stream = <<>>
  /\ line = <<>>
  /\ actions = <<>>
  /\ mainpc = "off"
  /\ consumed = <<>>
  /\ recorded = <<>>
  /\ before = NoSnap

Init ==
  /\ \E foreign \in ForeignSets : InitDriver(foreign)
  /\ InitApp

Probe ==
  \/ \E ok \in BOOLEAN : ProbeAlloc(ok)
  \/ \E ok \in BOOLEAN : ProbeClass(ok)
  \/ \E ok \in BOOLEAN : ProbeCdev(ok)
  \/ ProbeServo
  \/ ProbeStepper
  \/ CleanupGpio
  \/ CleanupCdev

Remove ==
  \/ RemoveServo
  \/ RemoveStepper
  \/ RemoveDevice

Next ==
  \/ Probe
  \/ Remove
  \/ TestIdle /\ \E minor \in Minors, ubuf \in LifePayloads : DevWrite(minor, ubuf, FALSE)
  \/ DevClose
  \/ PulseLow
  \/ PulseDone

Spec == Init /\ [][Next]_vars

(***************************************************************************)
(* moveServo (main.c)                                                      *)
(***************************************************************************)
MOVE_BUF_SIZE == 16

\* angle < 0 || angle > 180 is what moveServo refuses
MoveAngleOk_upper(angle) == angle <= 180

MoveAngleOk(angle) == angle >= 0 /\ angle <= 180

\* the same with the format "%d degrees"
MoveBuffer_degrees(angle) ==
  Take(Dec(angle) \o <<" ", "d", "e", "g", "r", "e", "e", "s">>, MOVE_BUF_SIZE - 1)

\* snprintf(buffer, sizeof(buffer), "%d", angle)
MoveBuffer(angle) == Take(Dec(angle), MOVE_BUF_SIZE - 1)

\* moveServo(angle) up to and including its write(fd, buffer, strlen(buffer));
\* it returns -1 at once when the angle is refused or open fails
moveServo(angle) ==
  /\ app.fn = "idle"
  /\ sys.op = "none"
  /\ IF MoveAngleOk(angle) /\ 0 \in endpoints
     THEN /\ \E ubuf \in {MoveBuffer(angle)} : SysWrite(0, ubuf, FALSE)
          /\ app' = [fn |-> "moveServo", angle |-> angle, st |-> "write"]
          /\ fnret' = fnret
     ELSE /\ app' = [fn |-> "moveServo", angle |-> angle, st |-> "returned"]
          /\ fnret' = 0 - 1
          /\ UNCHANGED <<level, servo_angle, pulse, sys>>
  /\ before' = Snapshot
  /\ UNCHANGED drvVars
  /\ UNCHANGED peer

\* write has returned: close(fd) and return 0, or -1 when write failed
moveServoReturn ==
  /\ app.fn = "moveServo"
  /\ app.st = "write"
  /\ sys.ret # PENDING
  /\ fnret' = IF sys.ret < 0 THEN 0 - 1 ELSE 0
  /\ app' = [app EXCEPT !.st = "returned"]
  /\ sys' = NoSys
  /\ UNCHANGED <<level, servo_angle, pulse, before>>
  /\ UNCHANGED drvVars
  /\ UNCHANGED peer

\* a test program calling moveServo(angle)
CallMoveServo(angle) ==
  /\ mainpc = "off"
  /\ moveServo(angle)
  /\ UNCHANGED mainVars

ReturnMoveServo ==
  /\ moveServoReturn
  /\ UNCHANGED mainVars

\* the test program goes on after the function it called has returned
Resume ==
  /\ mainpc = "off"
  /\ app.fn # "idle"
  /\ app.st = "returned"
  /\ app' = Idle
  /\ fnret' = 0
  /\ applied' = <<>>
  /\ before' = NoSnap
  /\ UNCHANGED <<level, servo_angle, pulse, sys>>
  /\ UNCHANGED drvVars
  /\ UNCHANGED peer
  /\ UNCHANGED <<stream, line, actions, mainpc, consumed, recorded>>

(***************************************************************************)
(* Specification SpecServo: the driver is attached; one process at a time  *)
(* writes angles to endpoint 0, reads it back and calls moveServo.         *)
(***************************************************************************)
\* angles are tried from -AngleMargin to SERVO_MAX_ANGLE + AngleMargin
AngleMargin == 3

BadAngles ==
  ((0 - AngleMargin)..(0 - 1))
  \cup ((SERVO_MAX_ANGLE + 1)..(SERVO_MAX_ANGLE + AngleMargin))
  \cup {1000, 0 - 1000, INT_MAX, 0 - INT_MAX}

GoodAngles == SERVO_MIN_ANGLE..SERVO_MAX_ANGLE

AngleInputs == GoodAngles \cup BadAngles

\* decimal numbers that do not fit an int
HugeNumbers ==
  { <<"2", "1", "4", "7", "4", "8", "3", "6", "4", "8">>,
    <<"4", "2", "9", "4", "9", "6", "7", "2", "9", "6">>,
    <<"4", "2", "9", "4", "9", "6", "7", "3", "8", "6">>,
    <<"-", "4", "2", "9", "4", "9", "6", "7", "2", "0", "6">>,
    <<"1">> \o Repeat("0", 30) }

\* other spellings of 90, 0 and 7 that kstrtoint accepts
Spellings ==
  { <<"+", "9", "0">>, <<"0", "9", "0">>, <<"9", "0", "\n">>, <<"-", "0">>,
    <<"7", "NUL", "x">>, Repeat("0", 31) }

ServoPayloads == { Dec(n) : n \in AngleInputs } \cup HugeNumbers \cup Spellings

ReadCounts == {14, 64}
\* file positions a read can find: *f_pos only advances by the length of a
\* read that succeeded, so it is 0 on a minor whose reads fail
ReadPositions(minor) == IF minor \in Minors THEN {0, 25} ELSE {0}

\* the state plat_drv_probe leaves when it returns 0
InitBound ==
  /\ drv = "bound"
  /\ probe_i = 4
  /\ err = 0
  /\ endpoints = Minors
  /\ owner = [l \in Lines |-> "driver"]
  /\ level = [l \in Lines |-> 0]
  /\ servo_angle = 0
  /\ pulse = NoPulse
  /\ sys = NoSys

InitServo == InitBound /\ InitApp

NextServo ==
  \/ TestIdle /\ \E ubuf \in ServoPayloads : DevWrite(0, ubuf, FALSE)
  \/ TestIdle /\ \E count \in ReadCounts, f_pos \in ReadPositions(0) :
                    DevRead(0, count, f_pos, FALSE)
  \/ DevClose
  \/ PulseLow
  \/ PulseDone
  \/ TestIdle /\ \E angle \in AngleInputs : CallMoveServo(angle)
  \/ ReturnMoveServo
  \/ Resume

SpecServo == InitServo /\ [][NextServo]_vars

(***************************************************************************)
(* Specification SpecDispatch: the driver is attached; one process at a    *)
(* time writes well-formed and malformed payloads to any minor, and reads. *)
(***************************************************************************)
\* payloads kstrtoint accepts
ValidPayloads ==
  { <<"0">>, <<"1">>, <<"9", "0">>, <<"1", "8", "0">>, <<"1", "\n">>,
    <<"0", "1">>, Repeat("0", KBUF_SIZE - 1) }

\* payloads that are not a decimal integer
NotDecimal ==
  { <<>>, <<"x">>, <<"9", "x">>, <<"x", "9">>, <<" ", "1">>, <<"1", " ">>,
    <<"1", ".", "5">>, <<"0", "x", "1">>, <<"+">>, <<"-">>, <<"-", "-", "1">>,
    <<"\n">>, <<"1", "\n", "\n">>, <<"NUL", "1">>, <<"o", "n">> }

\* payloads of 32 bytes or more
TooLong ==
  { Repeat("0", KBUF_SIZE), Repeat("1", KBUF_SIZE + 8),
    <<"1">> \o Repeat("\n", KBUF_SIZE - 1) }

\* decimal integers other than 0 and 1
NotLevel ==
  { <<"2">>, <<"-", "1">>, <<"1", "0">>, <<"1", "1">>, <<"9", "0">>,
    <<"1", "8", "0">>, <<"2", "\n">> }

DispatchPayloads == ValidPayloads \cup NotDecimal \cup TooLong \cup NotLevel

AllMinors == 0..MaxMinor

InitDispatch == InitBound /\ InitApp

NextDispatch ==
  \/ TestIdle /\ \E minor \in AllMinors, ubuf \in DispatchPayloads, fault \in BOOLEAN :
                    DevWrite(minor, ubuf, fault)
  \/ TestIdle /\ \E minor \in AllMinors, count \in ReadCounts, fault \in BOOLEAN :
                    \E f_pos \in ReadPositions(minor) :
                       DevRead(minor, count, f_pos, fault)
  \/ DevClose
  \/ PulseLow
  \/ PulseDone

SpecDispatch == InitDispatch /\ [][NextDispatch]_vars

(***************************************************************************)
(* writeStepperPin, resetStepper and rotateStepper (main.c)                *)
(***************************************************************************)
\* the wave-drive table, one phase high in every row
stepSequence_wave ==
  << <<1, 0, 0, 0>>,
     <<0, 1, 0, 0>>,
     <<0, 0, 1, 0>>,
     <<0, 0, 0, 1>> >>

\* const int stepSequence[4][4], rows 0..3 of the C array are rows 1..4 here
stepSequence ==
  << <<1, 0, 0, 1>>,
     <<1, 1, 0, 0>>,
     <<0, 1, 1, 0>>,
     <<0, 0, 1, 1>> >>

PIN_BUF_SIZE == 2

\* snprintf(buffer, sizeof(buffer), "%d", value) with char buffer[2]
PinBuffer(value) == Take(Dec(value), PIN_BUF_SIZE - 1)

\* the index going on from where the call before stopped
StepIndex_persistent(i, clockwise) ==
  LET done == IF recorded = <<>> THEN 0 ELSE recorded[Len(recorded)].steps
  IN IF clockwise THEN (i + done) % 4 ELSE 3 - ((i + done) % 4)

\* counter-clockwise counting the rows down from row 0 instead of row 3
StepIndex_backward(i, clockwise) == IF clockwise THEN i % 4 ELSE (4 - (i % 4)) % 4

\* both directions stepping up
StepIndex_forward(i, clockwise) == i % 4

\* int stepIndex = clockwise ? (i % 4) : (3 - (i % 4))
StepIndex(i, clockwise) == IF clockwise THEN i % 4 ELSE 3 - (i % 4)

\* writeStepperPin(device of this minor, value): open, write, close.  openok
\* is whether open succeeds on an existing endpoint; the hardware is touched
\* only by the write.  The value is what writeStepperPin returns.
writeStepperPinRet(minor, value, openok) ==
  IF ~(openok /\ CanOpen(minor)) THEN 0 - 1
  ELSE IF WriteResult(minor, PinBuffer(value), FALSE) < 0 THEN 0 - 1
  ELSE 0

writeStepperPin(minor, value, openok) ==
  /\ sys.op = "none"
  /\ IF openok /\ CanOpen(minor)
     THEN \E ubuf \in {PinBuffer(value)} : GpioWrite(minor, ubuf, FALSE)
     ELSE UNCHANGED <<level, servo_angle, pulse>>
  /\ UNCHANGED sys

\* the values a call has passed to writeStepperPin so far, one tuple per step
Record(rows, pin, value) ==
  IF pin = 1 THEN Append(rows, <<value>>)
  ELSE [rows EXCEPT ![Len(rows)] = Append(@, value)]

\* the same where a call of no steps returns without resetStepper
rotateStepper_noreset(steps, clockwise) ==
  /\ app.fn = "idle"
  /\ sys.op = "none"
  /\ app' = [fn |-> "rotateStepper", steps |-> steps, clockwise |-> clockwise,
             i |-> 0, pin |-> 1, wret |-> 0,
             st |-> IF 0 < steps THEN "step" ELSE "returned"]
  /\ applied' = <<>>
  /\ before' = Snapshot
  /\ UNCHANGED fnret
  /\ UNCHANGED <<level, servo_angle, pulse, sys>>
  /\ UNCHANGED drvVars
  /\ UNCHANGED peer

\* rotateStepper(steps, clockwise) is entered: i = 0 and the test i < steps
rotateStepper(steps, clockwise) ==
  /\ app.fn = "idle"
  /\ sys.op = "none"
  /\ app' = [fn |-> "rotateStepper", steps |-> steps, clockwise |-> clockwise,
             i |-> 0, pin |-> 1, wret |-> 0,
             st |-> IF 0 < steps THEN "step" ELSE "reset"]
  /\ applied' = <<>>
  /\ before' = Snapshot
  /\ UNCHANGED fnret
  /\ UNCHANGED <<level, servo_angle, pulse, sys>>
  /\ UNCHANGED drvVars
  /\ UNCHANGED peer

\* one writeStepperPin of the loop body; after the fourth one usleep, i++ and
\* the test i < steps
StepWrite(openok) ==
  /\ app.fn = "rotateStepper"
  /\ app.st = "step"
  /\ \E value \in {stepSequence[StepIndex(app.i, app.clockwise) + 1][app.pin]} :
        /\ writeStepperPin(app.pin, value, openok)
        /\ applied' = Record(applied, app.pin, value)
        /\ app' = IF app.pin < 4
                  THEN [app EXCEPT !.pin = app.pin + 1,
                                   !.wret = writeStepperPinRet(app.pin, value, openok)]
                  ELSE [app EXCEPT !.pin = 1, !.i = app.i + 1,
                                   !.wret = writeStepperPinRet(app.pin, value, openok),
                                   !.st = IF app.i + 1 < app.steps
                                          THEN "step" ELSE "reset"]
  /\ UNCHANGED <<fnret, before>>
  /\ UNCHANGED drvVars
  /\ UNCHANGED peer
  /\ UNCHANGED <<stream, line, actions, mainpc, consumed, recorded>>

\* the same where resetStepper leaves out STEPPER_DEV4
ResetWrite_short(openok) ==
  /\ app.fn = "rotateStepper"
  /\ app.st = "reset"
  /\ writeStepperPin(app.pin, 0, openok)
  /\ app' = IF app.pin < 3
            THEN [app EXCEPT !.pin = app.pin + 1,
                             !.wret = writeStepperPinRet(app.pin, 0, openok)]
            ELSE [app EXCEPT !.st = "returned",
                             !.wret = writeStepperPinRet(app.pin, 0, openok)]
  /\ fnret' = IF app.pin < 3 THEN fnret ELSE 0
  /\ UNCHANGED <<applied, before>>
  /\ UNCHANGED drvVars
  /\ UNCHANGED peer
  /\ UNCHANGED <<stream, line, actions, mainpc, consumed, recorded>>

\* one writeStepperPin(.., 0) of resetStepper; after the fourth one
\* rotateStepper returns 0
ResetWrite(openok) ==
  /\ app.fn = "rotateStepper"
  /\ app.st = "reset"
  /\ writeStepperPin(app.pin, 0, openok)
  /\ app' = IF app.pin < 4
            THEN [app EXCEPT !.pin = app.pin + 1,
                             !.wret = writeStepperPinRet(app.pin, 0, openok)]
            ELSE [app EXCEPT !.st = "returned",
                             !.wret = writeStepperPinRet(app.pin, 0, openok)]
  /\ fnret' = IF app.pin < 4 THEN fnret ELSE 0
  /\ UNCHANGED <<applied, before>>
  /\ UNCHANGED drvVars
  /\ UNCHANGED peer
  /\ UNCHANGED <<stream, line, actions, mainpc, consumed, recorded>>

\* a test program calling rotateStepper(steps, clockwise)
CallRotate(steps, clockwise) ==
  /\ mainpc = "off"
  /\ rotateStepper(steps, clockwise)
  /\ UNCHANGED <<stream, line, actions, mainpc, consumed, recorded>>

\* the test program notes the tuples of the call that has returned
RecordRotate ==
  /\ mainpc = "off"
  /\ app.fn = "rotateStepper"
  /\ app.st = "returned"
  /\ recorded' = Append(recorded, [steps |-> app.steps,
                                   clockwise |-> app.clockwise,
                                   rows |-> applied])
  /\ app' = Idle
  /\ fnret' = 0
  /\ applied' = <<>>
  /\ before' = NoSnap
  /\ UNCHANGED <<level, servo_angle, pulse, sys>>
  /\ UNCHANGED drvVars
  /\ UNCHANGED peer
  /\ UNCHANGED <<stream, line, actions, mainpc, consumed>>

\* the test program starts a new recording
Forget ==
  /\ mainpc = "off"
  /\ app.fn = "idle"
  /\ recorded # <<>>
  /\ recorded' = <<>>
  /\ UNCHANGED <<level, servo_angle, pulse, sys>>
  /\ UNCHANGED drvVars
  /\ UNCHANGED peer
  /\ UNCHANGED <<app, fnret, applied, stream, line, actions, mainpc, consumed,
                 before>>

(***************************************************************************)
(* Specification SpecRotate: the driver is attached and every open         *)
(* succeeds; a test program calls rotateStepper and records what each call *)
(* wrote.                                                                  *)
(***************************************************************************)
MaxSteps == 9
MaxCalls == 2

StepCounts == 0..MaxSteps

InitRotate == InitBound /\ InitApp

NextRotate ==
  \/ /\ TestIdle
     /\ Len(recorded) < MaxCalls
     /\ \E steps \in StepCounts, clockwise \in BOOLEAN : CallRotate(steps, clockwise)
  \/ StepWrite(TRUE)
  \/ ResetWrite(TRUE)
  \/ RecordRotate
  \/ Forget

SpecRotate == InitRotate /\ [][NextRotate]_vars

(***************************************************************************)
(* Specification SpecRotateFail: the same calls while an open of a phase   *)
(* endpoint may fail.                                                      *)
(***************************************************************************)
NextRotateFail ==
  \/ TestIdle /\ \E steps \in StepCounts, clockwise \in BOOLEAN :
                    CallRotate(steps, clockwise)
  \/ \E openok \in BOOLEAN : StepWrite(openok)
  \/ \E openok \in BOOLEAN : ResetWrite(openok)
  \/ Resume

SpecRotateFail == InitRotate /\ [][NextRotateFail]_vars

(***************************************************************************)
(* parseSunDirection and main (main.c).  A byte outside ASCII is written   *)
(* as its two hexadecimal digits.                                          *)
(***************************************************************************)
SERVO_UP_ANGLE == 90
SERVO_DOWN_ANGLE == 45
STEPPER_STEPS == 50
LINE_SIZE == 256
DIRECTION_WIDTH == 31

\* isspace in the C locale
IsSpace(c) == c \in {" ", "\t", "\n", "\r", "\f", "VT"}

\* the characters of s before the first one in stop
UpTo(s, stop) ==
  LET hits == { k \in 1..Len(s) : s[k] \in stop }
  IN IF hits = {} THEN s
     ELSE SubSeq(s, 1, (CHOOSE k \in hits : \A m \in hits : k <= m) - 1)

RECURSIVE SkipSpace(_)
SkipSpace(s) ==
  IF s # <<>> /\ IsSpace(s[1]) THEN SkipSpace(Tail(s)) ELSE s

\* %s without a field width
Word_unbounded(s, n) == UpTo(s, {" ", "\t", "\n", "\r", "\f", "VT"})

RECURSIVE Word(_, _)
\* at most n characters of s up to the first white space
Word(s, n) ==
  IF n = 0 \/ s = <<>> \/ IsSpace(s[1]) THEN <<>>
  ELSE <<s[1]>> \o Word(Tail(s), n - 1)

IsPrefix(p, s) == Len(s) >= Len(p) /\ SubSeq(s, 1, Len(p)) = p

SUN_DIR == <<"S", "U", "N", "_", "D", "I", "R", ":">>

\* a parser that does not skip white space before the direction
parseSunDirection_strict(str) ==
  LET text == CStr(str)
      word == Word(SubSeq(text, Len(SUN_DIR) + 1, Len(text)), DIRECTION_WIDTH)
  IN IF ~IsPrefix(SUN_DIR, text) THEN [ok |-> FALSE, direction |-> <<>>]
     ELSE IF word = <<>> THEN [ok |-> FALSE, direction |-> <<>>]
     ELSE [ok |-> TRUE, direction |-> word]

\* sscanf(line, "SUN_DIR:%31s", direction) == 1 ? direction : NULL.  The
\* characters SUN_DIR: must match the start of the line; %31s then skips
\* white space and stores up to 31 characters that are not white space.
parseSunDirection(str) ==
  LET text == CStr(str)
      word == Word(SkipSpace(SubSeq(text, Len(SUN_DIR) + 1, Len(text))),
                   DIRECTION_WIDTH)
  IN IF ~IsPrefix(SUN_DIR, text) THEN [ok |-> FALSE, direction |-> <<>>]
     ELSE IF word = <<>> THEN [ok |-> FALSE, direction |-> <<>>]
     ELSE [ok |-> TRUE, direction |-> word]

\* the strings main compares the direction with
Venstre == <<"V", "e", "n", "s", "t", "r", "e">>
Hojre == <<"H", "o", "j", "r", "e">>
Hojre_accented == <<"H", "C3", "83", "C2", "B8", "j", "r", "e">>
Op == <<"O", "p">>
Ned == <<"N", "e", "d">>

NoCall == [fn |-> "none"]

\* the same with the two directions of rotation exchanged
Dispatch_swapped(direction) ==
  IF direction = Venstre
  THEN [fn |-> "rotateStepper", steps |-> STEPPER_STEPS, clockwise |-> TRUE]
  ELSE IF direction = Hojre_accented \/ direction = Hojre
  THEN [fn |-> "rotateStepper", steps |-> STEPPER_STEPS, clockwise |-> FALSE]
  ELSE IF direction = Op
  THEN [fn |-> "moveServo", angle |-> SERVO_UP_ANGLE]
  ELSE IF direction = Ned
  THEN [fn |-> "moveServo", angle |-> SERVO_DOWN_ANGLE]
  ELSE NoCall

\* the strcmp chain of main: the call main makes for a direction
Dispatch(direction) ==
  IF direction = Venstre
  THEN [fn |-> "rotateStepper", steps |-> STEPPER_STEPS, clockwise |-> FALSE]
  ELSE IF direction = Hojre_accented \/ direction = Hojre
  THEN [fn |-> "rotateStepper", steps |-> STEPPER_STEPS, clockwise |-> TRUE]
  ELSE IF direction = Op
  THEN [fn |-> "moveServo", angle |-> SERVO_UP_ANGLE]
  ELSE IF direction = Ned
  THEN [fn |-> "moveServo", angle |-> SERVO_DOWN_ANGLE]
  ELSE NoCall

\* how many characters fgets(line, sizeof(line), serialInput) takes from the
\* stream: through the first newline, and no more than sizeof(line) - 1
FgetsLen(s) ==
  LET first == Len(UpTo(s, {"\n"})) + 1
      most  == IF Len(s) < LINE_SIZE - 1 THEN Len(s) ELSE LINE_SIZE - 1
  IN IF first <= most THEN first ELSE most

\* line[strcspn(line, "\r\n")] = 0
StripNewline(str) == UpTo(CStr(str), {"\r", "\n"})

\* serialInput = fopen(SERIAL_PORT, "r"); main returns 1 when it fails
MainFopen(ok) ==
  /\ mainpc = "fopen"
  /\ mainpc' = IF ok THEN "fgets" ELSE "exited"
  /\ UNCHANGED <<level, servo_angle, pulse, sys>>
  /\ UNCHANGED drvVars
  /\ UNCHANGED peer
  /\ UNCHANGED <<app, fnret, applied, stream, line, actions, consumed, recorded,
                 before>>

\* the serial line delivers the bytes of one more line
SerialArrive(bytes) ==
  /\ stream' = stream \o bytes
  /\ UNCHANGED <<level, servo_angle, pulse, sys>>
  /\ UNCHANGED drvVars
  /\ UNCHANGED peer
  /\ UNCHANGED <<app, fnret, applied, line, actions, mainpc, consumed, recorded,
                 before>>

\* if (fgets(line, sizeof(line), serialInput)) followed by the removal of
\* the newline; with nothing to read fgets returns NULL and main sleeps
MainFgets ==
  /\ mainpc = "fgets"
  /\ IF stream # <<>>
     THEN \E n \in {FgetsLen(stream)} :
             /\ line' = StripNewline(Take(stream, n))
             /\ consumed' = Append(consumed, Take(stream, n))
             /\ stream' = SubSeq(stream, n + 1, Len(stream))
             /\ mainpc' = "dispatch"
     ELSE /\ mainpc' = "sleep"
          /\ UNCHANGED <<line, consumed, stream>>
  /\ UNCHANGED <<level, servo_angle, pulse, sys>>
  /\ UNCHANGED drvVars
  /\ UNCHANGED peer
  /\ UNCHANGED <<app, fnret, applied, actions, recorded, before>>

\* parseSunDirection(line) and the strcmp chain, up to the call it makes:
\* continue (no usleep) when there is no direction
MainDispatch ==
  /\ mainpc = "dispatch"
  /\ \E d \in {parseSunDirection(line)} :
     \E c \in {IF d.ok THEN Dispatch(d.direction) ELSE NoCall} :
        IF c.fn = "rotateStepper"
        THEN /\ rotateStepper(c.steps, c.clockwise)
             /\ actions' = Append(actions, c)
             /\ mainpc' = "call"
        ELSE IF c.fn = "moveServo"
        THEN /\ moveServo(c.angle)
             /\ applied' = <<>>
             /\ actions' = Append(actions, c)
             /\ mainpc' = "call"
        ELSE /\ mainpc' = IF d.ok THEN "sleep" ELSE "fgets"
             /\ UNCHANGED <<level, servo_angle, pulse, sys>>
             /\ UNCHANGED drvVars
             /\ UNCHANGED peer
             /\ UNCHANGED <<app, fnret, applied, actions, before>>
  /\ UNCHANGED <<stream, line, consumed, recorded>>

\* the same where main goes on without waiting for the function to return
MainReturn_early ==
  /\ mainpc = "call"
  /\ app.fn # "idle"
  /\ app' = Idle
  /\ fnret' = 0
  /\ applied' = <<>>
  /\ before' = NoSnap
  /\ mainpc' = "sleep"
  /\ UNCHANGED <<level, servo_angle, pulse, sys>>
  /\ UNCHANGED drvVars
  /\ UNCHANGED peer
  /\ UNCHANGED <<stream, line, actions, consumed, recorded>>

\* the same where main gives up after a function that reported an error
MainReturn_exit ==
  /\ mainpc = "call"
  /\ app.fn # "idle"
  /\ app.st = "returned"
  /\ app' = Idle
  /\ fnret' = 0
  /\ applied' = <<>>
  /\ before' = NoSnap
  /\ mainpc' = IF fnret < 0 THEN "exited" ELSE "sleep"
  /\ UNCHANGED <<level, servo_angle, pulse, sys>>
  /\ UNCHANGED drvVars
  /\ UNCHANGED peer
  /\ UNCHANGED <<stream, line, actions, consumed, recorded>>

\* the function main called has returned; main does not look at its result
MainReturn ==
  /\ mainpc = "call"
  /\ app.fn # "idle"
  /\ app.st = "returned"
  /\ app' = Idle
  /\ fnret' = 0
  /\ applied' = <<>>
  /\ before' = NoSnap
  /\ mainpc' = "sleep"
  /\ UNCHANGED <<level, servo_angle, pulse, sys>>
  /\ UNCHANGED drvVars
  /\ UNCHANGED peer
  /\ UNCHANGED <<stream, line, actions, consumed, recorded>>

\* usleep(100000) and back to the top of while (1)
MainSleep ==
  /\ mainpc = "sleep"
  /\ mainpc' = "fgets"
  /\ UNCHANGED <<level, servo_angle, pulse, sys>>
  /\ UNCHANGED drvVars
  /\ UNCHANGED peer
  /\ UNCHANGED <<app, fnret, applied, stream, line, actions, consumed, recorded,
                 before>>

(***************************************************************************)
(* Specification SpecMain: the driver is attached and main runs; the       *)
(* serial line delivers a line whenever main waits for one.                *)
(***************************************************************************)
MaxLines == 3

SunDirLine(token) == SUN_DIR \o token \o <<"\n">>

Ukendt == <<"U", "k", "e", "n", "d", "t">>

LineInputs ==
  { SunDirLine(Venstre), SunDirLine(Hojre), SunDirLine(Op), SunDirLine(Ned),
    SunDirLine(Ukendt),
    SunDirLine(<<"O", "p", "N", "e", "d">>),
    SunDirLine(<<>>),
    SUN_DIR \o Ned \o <<"\r", "\n">>,
    <<"g", "a", "r", "b", "a", "g", "e", "\n">>,
    <<"x">> \o SunDirLine(Op) }

InitMain ==
  /\ InitBound
  /\ app = Idle
  /\ peer = Idle
  /\ fnret = 0
  /\ applied = <<>>
  /\ stream = <<>>
  /\ line = <<>>
  /\ actions = <<>>
  /\ mainpc = "fopen"
  /\ consumed = <<>>
  /\ recorded = <<>>
  /\ before = NoSnap

NextMain ==
  \/ \E ok \in BOOLEAN : MainFopen(ok)
  \/ /\ mainpc = "fgets"
     /\ stream = <<>>
     /\ Len(consumed) < MaxLines
     /\ \E bytes \in LineInputs : SerialArrive(bytes)
  \/ MainFgets
  \/ MainDispatch
  \/ StepWrite(TRUE)
  \/ ResetWrite(TRUE)
  \/ ReturnMoveServo
  \/ PulseLow
  \/ PulseDone
  \/ MainReturn
  \/ MainSleep

SpecMain == InitMain /\ [][NextMain]_vars

(***************************************************************************)
(* Claims about the driver lifecycle (specification Spec)                  *)
(***************************************************************************)
OwnedLines == { l \in Lines : owner[l] = "driver" }

\* C1: attach is all-or-nothing for the pin group: when plat_drv_probe has
\* returned an error, whichever request failed, the driver owns none of the
\* five lines.
C1_AttachAllOrNothing ==
  drv = "failed" => (err < 0 /\ OwnedLines = {})

\* C1 witness: probe failed on the last stepper line, after it had acquired
\* the servo line and three stepper lines.
C1_Witness ==
  /\ drv = "failed"
  /\ err = 0 - EBUSY
  /\ owner[stepper_gpio_base + 3] = "other"

\* C7: an endpoint exists only while all five lines are owned by the driver
\* (during attach, after a failed attach, during detach and after it).
C7_EndpointsOnlyWhileOwned ==
  endpoints # {} => OwnedLines = Lines

\* C8: after an attach that failed, none of the five endpoints created earlier
\* in the same attach is still registered.
C8_NoEndpointAfterFailedAttach ==
  drv = "failed" => endpoints = {}

(***************************************************************************)
(* Claims about the servo endpoint (specification SpecServo)               *)
(***************************************************************************)
\* the call in sys has returned
Returned == sys.op # "none" /\ sys.ret # PENDING

\* neither a line level nor servo_angle differs from when the call began
NothingChanged ==
  /\ level = before.level
  /\ servo_angle = before.servo_angle
  /\ pulse.st = "idle"

DecimalOf == [n \in AngleInputs |-> Dec(n)]

ServoPrefix == <<"S", "e", "r", "v", "o", " ", "a", "n", "g", "l", "e", ":", " ">>
ServoSuffix == <<" ", "d", "e", "g", "r", "e", "e", "s", "\n">>

\* C3: for every a in 0..180 a servo write of a succeeds and leaves
\* servo_angle = a; every read of endpoint 0 delivers the rendering of the
\* current servo_angle (cut to the bytes asked for); and servo_angle changes
\* only when a servo write completes successfully.
C3_ServoWriteRead ==
  /\ [](/\ (sys.op = "write" /\ sys.minor = 0 /\ Returned) =>
              \A a \in GoodAngles :
                 sys.ubuf = DecimalOf[a] => (sys.ret = Len(sys.ubuf) /\ servo_angle = a)
        /\ (sys.op = "read" /\ sys.minor = 0 /\ sys.f_pos = 0) =>
              /\ sys.data = Take(ServoPrefix \o DecimalOf[servo_angle] \o ServoSuffix, sys.count)
              /\ sys.ret = Len(sys.data)
              /\ sys.count >= READ_KBUF_SIZE =>
                   kstrtoint(SubSeq(sys.data, Len(ServoPrefix) + 1,
                                    Len(sys.data) - Len(ServoSuffix)))
                     = [ok |-> TRUE, val |-> servo_angle])
  /\ [][servo_angle' # servo_angle =>
          /\ sys.op = "write" /\ sys.minor = 0 /\ sys.ret = PENDING
          /\ sys'.ret = Len(sys.ubuf)
          /\ kstrtoint(sys.ubuf) = [ok |-> TRUE, val |-> servo_angle']]_vars

\* C3 witness: 180 was written and endpoint 0 read back in full.
C3_Witness ==
  /\ servo_angle = 180
  /\ sys.op = "read" /\ sys.minor = 0 /\ sys.count = 64
  /\ sys.data = ServoPrefix \o <<"1", "8", "0">> \o ServoSuffix

BadDecimals == { DecimalOf[n] : n \in BadAngles } \cup HugeNumbers

\* C4: an angle outside 0..180 is rejected with an error by moveServo and by
\* a write to endpoint 0: the servo line is high only during the pulse of an
\* angle in 0..180, and the rejected call leaves every level and servo_angle
\* as they were.
C4_OutOfRangeRejected ==
  /\ level[servo_gpio] = 1 => (pulse.st = "high" /\ pulse.value \in 0..180)
  /\ (sys.op = "write" /\ sys.minor = 0 /\ sys.ubuf \in BadDecimals) =>
        (sys.ret = 0 - EINVAL /\ NothingChanged)
  /\ (app.fn = "moveServo" /\ app.angle \in BadAngles) =>
        (app.st = "returned" /\ fnret = 0 - 1 /\ sys = NoSys /\ NothingChanged)

\* C4 witness: the servo stands at 90 and a write of -1 has been rejected.
C4_Witness ==
  /\ servo_angle = 90
  /\ sys.op = "write" /\ sys.minor = 0 /\ sys.ubuf = <<"-", "1">>
  /\ sys.ret = 0 - EINVAL

(***************************************************************************)
(* Claims about the dispatcher (specification SpecDispatch)                *)
(***************************************************************************)
\* C9: a write or a read addressed to a minor outside 0..4 fails with an
\* error, delivers nothing and changes no line level and no state.
C9_InvalidEndpoint ==
  (sys.op # "none" /\ sys.minor \notin 0..4) =>
     (sys.ret < 0 /\ sys.ret # PENDING /\ sys.data = <<>> /\ NothingChanged)

\* C9 witness: a write of "1" to minor 5 was rejected while a phase line is high.
C9_Witness ==
  /\ sys.op = "write" /\ sys.minor = 5 /\ sys.ubuf = <<"1">> /\ ~sys.fault
  /\ sys.ret = 0 - EINVAL
  /\ level[stepper_gpio_base] = 1

\* C10: a write whose payload is not a decimal integer, or is 32 bytes or
\* longer, or carries for a phase endpoint 1..4 a value other than 0 or 1,
\* is rejected with an error and changes no line level and not servo_angle.
C10_MalformedPayload ==
  (/\ sys.op = "write"
   /\ sys.minor \in 0..4
   /\ \/ sys.ubuf \in NotDecimal
      \/ Len(sys.ubuf) >= 32
      \/ (sys.minor \in 1..4 /\ sys.ubuf \in NotLevel)) =>
     (sys.ret < 0 /\ sys.ret # PENDING /\ NothingChanged)

\* C10 witness: phase line 1 is high, the servo stands at 90, and a write of
\* "2" to endpoint 2 has been rejected.
C10_Witness ==
  /\ sys.op = "write" /\ sys.minor = 2 /\ sys.ubuf = <<"2">> /\ ~sys.fault
  /\ sys.ret = 0 - EINVAL
  /\ level[stepper_gpio_base + 1] = 1
  /\ servo_angle = 90

(***************************************************************************)
(* Claims about rotateStepper (specifications SpecRotate, SpecRotateFail)  *)
(***************************************************************************)
PhaseLevels == [k \in 1..4 |-> level[PhaseGpio(k)]]

RotateReturned == app.fn = "rotateStepper" /\ app.st = "returned"

\* C2: when rotate(steps, dir) returns, all four phase lines are 0, also
\* when some write of the call failed.
C2_CoilsReleased ==
  RotateReturned => \A l \in PhaseLines : level[l] = 0

Reverse(s) == [k \in 1..Len(s) |-> s[Len(s) + 1 - k]]

\* the row of the table a quadruple is
RowOf(quad) == CHOOSE r \in 0..3 : stepSequence[r + 1] = quad

\* the row the claim names for step i
ClaimedRow(i, clockwise) == IF clockwise THEN i % 4 ELSE 3 - (i % 4)

\* C5: at step i of rotate the row applied is i mod 4 when clockwise and
\* 3 - (i mod 4) when counter-clockwise; for the same n the counter-clockwise
\* call applies at every step the mirror row of the clockwise call, and for
\* n = 8 the recorded sequence of quadruples of one direction is the reverse
\* of the other.
C5_MirroredRows ==
  /\ app.fn = "rotateStepper" =>
       /\ \A k \in 1..Len(applied) :
             applied[k] = Take(stepSequence[ClaimedRow(k - 1, app.clockwise) + 1],
                               Len(applied[k]))
       /\ \A k \in 1..(Len(applied) - 1) : Len(applied[k]) = 4
       /\ (app.st # "returned" /\ app.pin = 1 /\ app.i > 0) =>
             /\ Len(applied) = app.i
             /\ PhaseLevels = stepSequence[ClaimedRow(app.i - 1, app.clockwise) + 1]
  /\ \A a, b \in 1..Len(recorded) :
       (/\ recorded[a].steps = recorded[b].steps
        /\ recorded[a].clockwise
        /\ ~recorded[b].clockwise) =>
          /\ Len(recorded[a].rows) = recorded[a].steps
          /\ Len(recorded[b].rows) = recorded[b].steps
          /\ \A k \in 1..recorded[a].steps :
                RowOf(recorded[b].rows[k]) = 3 - RowOf(recorded[a].rows[k])
          /\ recorded[a].steps = 8 =>
                /\ recorded[b].rows = Reverse(recorded[a].rows)
                /\ recorded[a].rows = Reverse(recorded[b].rows)

\* both directions have been recorded for n = 8
C5_Witness ==
  \E a, b \in 1..Len(recorded) :
     /\ recorded[a].steps = 8
     /\ recorded[b].steps = 8
     /\ recorded[a].clockwise
     /\ ~recorded[b].clockwise
     /\ recorded[a].rows # recorded[b].rows

(***************************************************************************)
(* Claims about the controller (specification SpecMain)                    *)
(***************************************************************************)
\* the token of an input line: what stands between SUN_DIR: and the line end
TokenOf(bytes) ==
  LET body == UpTo(bytes, {"\r", "\n"})
  IN IF IsPrefix(SUN_DIR, body)
     THEN [some |-> TRUE, token |-> SubSeq(body, Len(SUN_DIR) + 1, Len(body))]
     ELSE [some |-> FALSE, token |-> <<>>]

\* the actions the claim names for an input line: one or none
ClaimedAction(bytes) ==
  LET t == TokenOf(bytes)
  IN IF ~t.some THEN <<>>
     ELSE IF t.token = Venstre
     THEN << [fn |-> "rotateStepper", steps |-> 50, clockwise |-> FALSE] >>
     ELSE IF t.token = Hojre
     THEN << [fn |-> "rotateStepper", steps |-> 50, clockwise |-> TRUE] >>
     ELSE IF t.token = Op
     THEN << [fn |-> "moveServo", angle |-> 90] >>
     ELSE IF t.token = Ned
     THEN << [fn |-> "moveServo", angle |-> 45] >>
     ELSE <<>>

RECURSIVE ClaimedActions(_)
ClaimedActions(lines) ==
  IF lines = <<>> THEN <<>>
  ELSE ClaimedAction(Head(lines)) \o ClaimedActions(Tail(lines))

\* the call in progress is the last action, and once returned it is done
RunsLastAction ==
  LET c == actions[Len(actions)]
  IN /\ actions # <<>>
     /\ ClaimedAction(consumed[Len(consumed)]) = <<c>>
     /\ app # Idle
     /\ app.fn = c.fn
     /\ c.fn = "rotateStepper" =>
          /\ app.steps = c.steps
          /\ app.clockwise = c.clockwise
          /\ app.st = "returned" =>
               /\ Len(applied) = c.steps
               /\ \A k \in 1..Len(applied) : Len(applied[k]) = 4
     /\ c.fn = "moveServo" =>
          /\ app.angle = c.angle
          /\ app.st = "returned" => (fnret = 0 /\ servo_angle = c.angle)

C6_State ==
  /\ mainpc \in {"fgets", "sleep", "call"} => actions = ClaimedActions(consumed)
  /\ mainpc = "dispatch" =>
       actions = ClaimedActions(SubSeq(consumed, 1, Len(consumed) - 1))
  /\ mainpc = "call" => RunsLastAction
  /\ mainpc \in {"fgets", "sleep", "dispatch"} =>
       (app = Idle /\ sys = NoSys /\ pulse = NoPulse)

MaxLiveLines == 2

LiveInputs ==
  { SunDirLine(Venstre), SunDirLine(Op), SunDirLine(Ukendt),
    <<"g", "a", "r", "b", "a", "g", "e", "\n">> }

InitController ==
  /\ app = Idle
  /\ peer = Idle
  /\ fnret = 0
  /\ applied = <<>>
  /\ stream = <<>>
  /\ line = <<>>
  /\ actions = <<>>
  /\ mainpc = "fopen"
  /\ consumed = <<>>
  /\ recorded = <<>>
  /\ before = NoSnap

InitMainLive ==
  /\ InitBound \/ InitDriver({})
  /\ InitController

\* the steps of main and of the functions and system calls it is inside
ControllerStep ==
  \/ MainFgets
  \/ MainDispatch
  \/ StepWrite(TRUE)
  \/ ResetWrite(TRUE)
  \/ ReturnMoveServo
  \/ PulseLow
  \/ PulseDone
  \/ MainReturn
  \/ MainSleep

NextMainLive ==
  \/ \E ok \in BOOLEAN : MainFopen(ok)
  \/ /\ mainpc = "fgets"
     /\ stream = <<>>
     /\ Len(consumed) < MaxLiveLines
     /\ \E bytes \in LiveInputs : SerialArrive(bytes)
  \/ ControllerStep

SpecMainLive == InitMainLive /\ [][NextMainLive]_vars /\ WF_vars(ControllerStep)

\* the positions of main inside while (1)
LoopPcs == {"fgets", "dispatch", "call", "sleep"}

\* C11: once its loop has started the controller never terminates; after
\* any input line, also one whose motor action fails because an endpoint
\* cannot be opened or written, it eventually goes back to reading the next
\* line.
C11_NeverTerminates ==
  /\ [][(mainpc \in LoopPcs) => (mainpc' \in LoopPcs)]_vars
  /\ (mainpc \in {"dispatch", "call", "sleep"}) ~> (mainpc = "fgets")

\* two actions have failed for want of endpoints and main reads again
C11_Witness ==
  /\ mainpc = "fgets"
  /\ endpoints = {}
  /\ Len(consumed) = 2
  /\ actions = << [fn |-> "rotateStepper", steps |-> 50, clockwise |-> FALSE],
                  [fn |-> "moveServo", angle |-> 90] >>

(***************************************************************************)
(* Specification SpecMainBusy: the driver is attached and main runs; the   *)
(* serial line delivers lines at any moment, also while main is inside a   *)
(* motor function.                                                         *)
(***************************************************************************)
MaxBusyLines == 3

BusyInputs == { SunDirLine(Venstre), SunDirLine(Op), SunDirLine(Ukendt) }

\* lines delivered so far: those read and those still in the stream
ArrivedLines ==
  Len(consumed) + Cardinality({ k \in 1..Len(stream) : stream[k] = "\n" })

NextMainBusy ==
  \/ \E ok \in BOOLEAN : MainFopen(ok)
  \/ /\ mainpc \in LoopPcs
     /\ ArrivedLines < MaxBusyLines
     /\ \E bytes \in BusyInputs : SerialArrive(bytes)
  \/ ControllerStep

SpecMainBusy == InitMain /\ [][NextMainBusy]_vars

RECURSIVE Flatten(_)
Flatten(pieces) ==
  IF pieces = <<>> THEN <<>> ELSE Head(pieces) \o Flatten(Tail(pieces))

\* every byte delivered so far, in the order of delivery
Delivered == Flatten(consumed) \o stream

\* the function main called has issued all its writes
AllWritesIssued ==
  /\ app # Idle
  /\ app.st = "returned"
  /\ pulse = NoPulse
  /\ app.fn = "rotateStepper" =>
       /\ Len(applied) = app.steps
       /\ \A k \in 1..Len(applied) : Len(applied[k]) = 4
       /\ app.pin = 4

\* C12: motor actions of the controller never overlap: the next input line
\* is read only after every write of the current action has been issued,
\* for rotate including the four final de-energize writes; lines that
\* arrive during an action are handled afterwards, in arrival order.
C12_NoOverlap ==
  /\ [](mainpc \in {"fgets", "sleep", "call"} => actions = ClaimedActions(consumed))
  /\ [][/\ (mainpc = "call" /\ mainpc' # "call") => AllWritesIssued
        /\ consumed' # consumed =>
             /\ mainpc = "fgets"
             /\ app = Idle /\ sys = NoSys /\ pulse = NoPulse
             /\ \E n \in 1..Len(stream) :
                   /\ consumed' = Append(consumed, SubSeq(stream, 1, n))
                   /\ stream' = SubSeq(stream, n + 1, Len(stream))
        /\ IsPrefix(Delivered, Delivered')
        /\ (mainpc # "call" /\ mainpc' # "call") => level' = level]_vars

\* two lines have arrived while rotateStepper is in its final pass
C12_Witness ==
  /\ mainpc = "call"
  /\ app.fn = "rotateStepper"
  /\ app.st = "reset"
  /\ app.pin = 3
  /\ stream = SunDirLine(Op) \o SunDirLine(Ukendt)
  /\ consumed = <<SunDirLine(Venstre)>>

(***************************************************************************)
(* Specification SpecParse: the driver is attached and main runs; the      *)
(* serial line delivers lines of many shapes.                              *)
(***************************************************************************)
MaxParseLines == 1

\* "x" repeated n times after the prefix
LongLine(n) == SunDirLine(Repeat("x", n))

ParseInputs ==
  { SunDirLine(Venstre), SunDirLine(Op), SunDirLine(Ukendt),
    <<"g", "a", "r", "b", "a", "g", "e", "\n">>,
    <<"x">> \o SunDirLine(Op),
    <<" ">> \o SunDirLine(Op),
    <<"s", "u", "n", "_", "d", "i", "r", ":">> \o Op \o <<"\n">>,
    SUN_DIR \o <<"\n">>,
    SUN_DIR \o <<" ", " ", "\t", "\n">>,
    SUN_DIR \o <<" ">> \o Op \o <<"\n">>,
    SUN_DIR \o <<"\t", " ">> \o Ned \o <<"\n">>,
    SUN_DIR \o Op \o <<" ">> \o Ned \o <<"\n">>,
    SUN_DIR \o Ned \o <<"\r", "\n">>,
    LongLine(DIRECTION_WIDTH), LongLine(DIRECTION_WIDTH + 1), LongLine(40),
    SunDirLine(Op \o Repeat("x", 30)),
    SunDirLine(Venstre \o Repeat(" ", 30)),
    LongLine(LINE_SIZE - 1 - Len(SUN_DIR)), LongLine(300) }

NextParse ==
  \/ \E ok \in BOOLEAN : MainFopen(ok)
  \/ /\ mainpc = "fgets"
     /\ stream = <<>>
     /\ Len(consumed) < MaxParseLines
     /\ \E bytes \in ParseInputs : SerialArrive(bytes)
  \/ ControllerStep

SpecParse == InitMain /\ [][NextParse]_vars

(***************************************************************************)
(* Claims about the parser (specification SpecParse)                       *)
(***************************************************************************)
WhiteSpace == {" ", "\t", "\n", "\r", "\f", "VT"}

\* what follows the prefix on a line that starts with it
Rest(bytes) ==
  LET body == UpTo(bytes, {"\r", "\n"})
  IN IF IsPrefix(SUN_DIR, body)
     THEN [some |-> TRUE, text |-> SubSeq(body, Len(SUN_DIR) + 1, Len(body))]
     ELSE [some |-> FALSE, text |-> <<>>]

\* the line starts with SUN_DIR: immediately followed by 1 to 31 characters
\* that are not white space
ShapeClaimed(bytes) ==
  /\ Rest(bytes).some
  /\ Len(UpTo(Rest(bytes).text, WhiteSpace)) \in 1..31

\* the line read last
LastLine == consumed[Len(consumed)]

\* C13 as stated: the parser yields a token only for a line that starts with
\* SUN_DIR: immediately followed by 1 to 31 non-whitespace characters; every
\* line of another shape yields no command and causes no motor action.
C13_TokenOnlyForShape ==
  [][mainpc = "dispatch" =>
       /\ (mainpc' # "fgets") => ShapeClaimed(LastLine)
       /\ ~ShapeClaimed(LastLine) =>
            (mainpc' = "fgets" /\ actions' = actions /\ level' = level)]_vars

\* the text after the prefix without its leading white space
Unpadded(text) ==
  LET from == { k \in 1..Len(text) : text[k] \notin WhiteSpace }
  IN IF from = {} THEN <<>>
     ELSE SubSeq(text, CHOOSE k \in from : \A m \in from : k <= m, Len(text))

\* the line starts with SUN_DIR: followed, after white space or none, by a
\* character that is not white space
ShapeAmended(bytes) ==
  /\ Rest(bytes).some
  /\ Unpadded(Rest(bytes).text) # <<>>

\* the token of such a line: its first characters that are not white
\* space, 31 of them at most
TokenAmended(bytes) ==
  Take(UpTo(Unpadded(Rest(bytes).text), WhiteSpace), 31)

\* C13 as amended: the parser yields a token only for a line that starts
\* with SUN_DIR: followed, after optional white space, by at least one
\* non-whitespace character, and the token is the first up to 31 of these
\* characters; every line of another shape yields no command and causes no
\* motor action.
C13_TokenAfterOptionalSpace ==
  [][mainpc = "dispatch" =>
       /\ (mainpc' # "fgets") <=> ShapeAmended(LastLine)
       /\ ~ShapeAmended(LastLine) => (actions' = actions /\ level' = level)
       /\ ShapeAmended(LastLine) =>
            IF Dispatch(TokenAmended(LastLine)) = NoCall
            THEN actions' = actions /\ mainpc' = "sleep"
            ELSE /\ actions' = Append(actions, Dispatch(TokenAmended(LastLine)))
                 /\ mainpc' = "call"]_vars

\* a line with white space directly after the prefix has moved the servo
C13_Witness ==
  /\ consumed = << SUN_DIR \o <<" ">> \o Op \o <<"\n">> >>
  /\ actions = << [fn |-> "moveServo", angle |-> 90] >>
  /\ mainpc = "sleep"
  /\ servo_angle = 90

\* the characters that are not white space directly after the prefix
RunAfterPrefix(bytes) == UpTo(Rest(bytes).text, WhiteSpace)

\* the line handed to the parser has more than 31 such characters
LongToken(bytes) == Rest(bytes).some /\ Len(RunAfterPrefix(bytes)) > 31

\* C14: for a line whose token after SUN_DIR: is longer than 31 characters
\* the parser stores at most 31 characters plus terminator in its 32-byte
\* buffer, and the truncated token is never classified Left, Right, Up or
\* Down, so no motor action follows.
C14_LongTokenTruncated ==
  /\ [](mainpc = "dispatch" /\ LongToken(LastLine) =>
          /\ parseSunDirection(line).ok
          /\ Len(parseSunDirection(line).direction) + 1 <= 32
          /\ parseSunDirection(line).direction = Take(RunAfterPrefix(LastLine), 31)
          /\ parseSunDirection(line).direction \notin {Venstre, Hojre, Hojre_accented, Op, Ned})
  /\ [][mainpc = "dispatch" /\ LongToken(LastLine) =>
          (mainpc' = "sleep" /\ actions' = actions /\ level' = level /\ app' = Idle)]_vars

\* a line with 40 characters after the prefix has been handled
C14_Witness ==
  /\ consumed = << LongLine(40) >>
  /\ mainpc = "sleep"
  /\ actions = <<>>


(***************************************************************************)
(* The sensor side (esp32): LightSensor::getSunDirection and loop().       *)
(***************************************************************************)
\* the bytes of the literal "Højre" in Lys.h (UTF-8)
Hojre_sensor == <<"H", "C3", "B8", "j", "r", "e">>

\* the direction of the largest of the four intensities; left wins ties, then
\* right, then up
getSunDirection(left, right, up, down) ==
  LET m1 == IF right > left THEN right ELSE left
      d1 == IF right > left THEN Hojre_sensor ELSE Venstre
      m2 == IF up > m1 THEN up ELSE m1
      d2 == IF up > m1 THEN Op ELSE d1
  IN IF down > m2 THEN Ned ELSE d2

\* one pass of loop(): RP.printf("SUN_DIR:%s\n", ...) when the UART has room
SensorLoop(left, right, up, down, room) ==
  /\ stream' = IF room
               THEN stream \o SUN_DIR \o getSunDirection(left, right, up, down)
                           \o <<"\n">>
               ELSE stream
  /\ UNCHANGED <<level, servo_angle, pulse, sys>>
  /\ UNCHANGED drvVars
  /\ UNCHANGED peer
  /\ UNCHANGED <<app, fnret, applied, line, actions, mainpc, consumed,
                 recorded, before>>

(***************************************************************************)
(* Specification SpecSensor: the controller reads what the sensor side     *)
(* sends; the four intensities are any values of 0..MaxIntensity.          *)
(***************************************************************************)
MaxIntensity == 2

MaxSensorLines == 2

NextSensor ==
  \/ \E ok \in BOOLEAN : MainFopen(ok)
  \/ /\ mainpc = "fgets"
     /\ stream = <<>>
     /\ Len(consumed) < MaxSensorLines
     /\ \E left, right, up, down \in 0..MaxIntensity, room \in BOOLEAN :
           SensorLoop(left, right, up, down, room)
  \/ ControllerStep

SpecSensor == InitMain /\ [][NextSensor]_vars

\* the action the claim names for a line of the sensor side
SensorAction(bytes) ==
  LET token == UpTo(SubSeq(bytes, Len(SUN_DIR) + 1, Len(bytes)), {"\n"})
  IN IF token = Venstre
     THEN [fn |-> "rotateStepper", steps |-> 50, clockwise |-> FALSE]
     ELSE IF token = Hojre_sensor \/ token = Hojre
     THEN [fn |-> "rotateStepper", steps |-> 50, clockwise |-> TRUE]
     ELSE IF token = Op
     THEN [fn |-> "moveServo", angle |-> 90]
     ELSE [fn |-> "moveServo", angle |-> 45]

\* C15: every line the sensor side emits (Venstre, the accented token for
\* right, Op, Ned) makes the controller start a motor action, and the accented
\* token starts rotate(50, clockwise) as Hojre does.
C15_SensorTokensAct ==
  [][mainpc = "dispatch" =>
       (mainpc' = "call" /\ actions' = Append(actions, SensorAction(LastLine)))]_vars


(***************************************************************************)
(* Claims about reads and phase writes (specification SpecDispatch)        *)
(***************************************************************************)
\* what a read of every endpoint would deliver in the current state
Renderings ==
  [minor \in Minors |-> gpio_read(minor, READ_KBUF_SIZE, 0, FALSE)]

\* C16: a read of any endpoint changes neither servo_angle nor the level of
\* any line, whatever it returns, and so leaves what every later read of
\* every endpoint delivers as it was; closing the file changes nothing either.
C16_ReadChangesNothing ==
  /\ [][(sys'.op = "read" \/ sys.op = "read") =>
          /\ level' = level
          /\ servo_angle' = servo_angle
          /\ pulse' = pulse
          /\ owner' = owner
          /\ endpoints' = endpoints
          /\ Renderings' = Renderings]_vars
  /\ [](sys.op = "read" => (before = Snapshot /\ sys.ret # PENDING))

\* C16 witness: phase 2 is high, the servo stands at 90 and a read of
\* endpoint 2 has delivered its text.
C16_Witness ==
  /\ sys.op = "read" /\ sys.minor = 2 /\ sys.count = 64
  /\ sys.data = PinText(2, 1)
  /\ servo_angle = 90
  /\ before = Snapshot


\* C17: a write of v in {0,1} to phase endpoint k that succeeds has set phase
\* line k-1 to v when it returns; a read of endpoint k renders the level of
\* that line as 'Stepper pin k: <level>'; and the level of the line changes
\* only in a successful write to endpoint k, so that reads render v until the
\* next such write.
C17_PhaseWriteRead ==
  /\ [][(sys.op = "none" /\ sys'.op = "write" /\ IsPhaseMinor(sys'.minor)
           /\ sys'.ret >= 0) =>
          /\ kstrtoint(sys'.ubuf).ok
          /\ kstrtoint(sys'.ubuf).val \in {0, 1}
          /\ level'[PhaseGpio(sys'.minor)] = kstrtoint(sys'.ubuf).val]_vars
  /\ [][(sys.op = "none" /\ sys'.op = "read" /\ IsPhaseMinor(sys'.minor)
           /\ sys'.ret > 0) =>
          sys'.data = Take(PinText(sys'.minor, level[PhaseGpio(sys'.minor)]),
                           sys'.count)]_vars
  /\ [][\A k \in 1..4 :
          level'[PhaseGpio(k)] # level[PhaseGpio(k)] =>
            (sys.op = "none" /\ sys'.op = "write" /\ sys'.minor = k
               /\ sys'.ret >= 0)]_vars


(***************************************************************************)
(* Claim about the pulse width (specification SpecServo)                   *)
(***************************************************************************)
\* C18: for every angle in 0..180 the pulse width is 500 + (angle * 2000)
\* div 180; it lies in 500..2500, does not decrease with the angle, is 500 at
\* 0, 1500 at 90 and 2500 at 180, and the low time 20000 - duty lies in
\* 17500..19500; every pulse the driver makes is one of an angle in 0..180,
\* so both of its delays are positive.
C18_PulseWidth ==
  /\ \A a \in 0..180 :
        /\ duty_cycle(a) = 500 + ((a * 2000) \div 180)
        /\ duty_cycle(a) \in 500..2500
        /\ (SERVO_PERIOD - duty_cycle(a)) \in 17500..19500
        /\ a < 180 => duty_cycle(a) <= duty_cycle(a + 1)
  /\ duty_cycle(0) = 500
  /\ duty_cycle(90) = 1500
  /\ duty_cycle(180) = 2500
  /\ pulse.st # "idle" =>
        /\ pulse.value \in 0..180
        /\ pulse.duty = 500 + ((pulse.value * 2000) \div 180)
        /\ pulse.duty > 0
        /\ SERVO_PERIOD - pulse.duty > 0

\* C18 witness: the pulse of a write of 179 is in its low time.
C18_Witness ==
  /\ pulse.st = "low"
  /\ pulse.value = 179
  /\ pulse.duty = 2488
  /\ sys.op = "write" /\ sys.ubuf = <<"1", "7", "9">>


(***************************************************************************)
(* Claim about the release of the pin group (specification Spec)           *)
(***************************************************************************)
\* C19: once the pin group has been released, by plat_drv_remove or by the
\* release of a partly acquired group in an attach that failed, the driver
\* owns none of the five lines and none of the five endpoints remains, for
\* every attach and detach in turn; and a line is released only if the driver
\* had acquired it.
C19_ReleaseGroup ==
  /\ [](drv \in {"unbound", "failed"} => (OwnedLines = {} /\ endpoints = {}))
  /\ [][\A l \in Lines :
          (owner'[l] # owner[l] /\ owner'[l] = "none") => owner[l] = "driver"]_vars


(***************************************************************************)
(* Claim about the mirrored index (specification SpecRotate)               *)
(***************************************************************************)
\* the commutation table with its rows in reverse order
ReversedTable == Reverse(stepSequence)

\* the quadruple of step i when stepping forward through the reversed table
ForwardReversed(i) == ReversedTable[(i % 4) + 1]

\* C20 as stated: a counter-clockwise call applies the quadruples of forward
\* stepping through the row-reversed table at its first four steps and a
\* different quadruple at some later step.
C20_NotEquivalent ==
  (RotateReturned /\ ~app.clockwise /\ app.steps > 4) =>
     /\ \A k \in 1..4 : applied[k] = ForwardReversed(k - 1)
     /\ \E k \in 5..Len(applied) : applied[k] # ForwardReversed(k - 1)

\* C20 amended: counter-clockwise stepping by the mirrored index applies at
\* every step, in the first cycle and after it, the quadruple of forward
\* stepping through the row-reversed table.
C20_SameAsReversedTable ==
  /\ (app.fn = "rotateStepper" /\ ~app.clockwise) =>
        /\ \A k \in 1..Len(applied) :
              applied[k] = Take(ForwardReversed(k - 1), Len(applied[k]))
        /\ RotateReturned =>
              /\ Len(applied) = app.steps
              /\ \A k \in 1..Len(applied) : applied[k] = ForwardReversed(k - 1)
  /\ \A a \in 1..Len(recorded) :
        ~recorded[a].clockwise =>
           \A k \in 1..Len(recorded[a].rows) :
              recorded[a].rows[k] = ForwardReversed(k - 1)

\* C20 witness: a counter-clockwise call of 9 steps has returned; its fifth
\* and ninth steps applied the last row of the table.
C20_Witness ==
  /\ RotateReturned
  /\ ~app.clockwise
  /\ app.steps = 9
  /\ applied[5] = <<0, 0, 1, 1>>
  /\ applied[9] = <<0, 0, 1, 1>>


(***************************************************************************)
(* Claims about the writes of rotateStepper (SpecRotateFail, SpecRotate)   *)
(***************************************************************************)
\* how many writeStepperPin calls the call in progress has made, by the
\* place it has reached
Issued ==
  IF app.st = "step" THEN 4 * app.i + (app.pin - 1)
  ELSE IF app.st = "reset" THEN 4 * app.steps + (app.pin - 1)
  ELSE 4 * app.steps + 4

\* the value the claim names for the write the call makes next
ClaimedValue ==
  IF app.st = "step" THEN stepSequence[ClaimedRow(app.i, app.clockwise) + 1][app.pin]
  ELSE 0

\* C21: rotate(steps, dir) makes its phase writes one at a time: for each step
\* in order phase 0, 1, 2, 3 with the values of the row of that step, then
\* phase 0, 1, 2, 3 with 0, 4*steps + 4 in all, and returns only after the
\* last of them; the four final writes are made when steps = 0 and when an
\* earlier write failed.  A write that fails leaves its line as it was.
C21_WritesInOrder ==
  /\ [][(app.fn = "idle" /\ app'.fn = "rotateStepper") =>
          (Issued' = 0 /\ applied' = <<>> /\ level' = level)]_vars
  /\ [][(app.fn = "rotateStepper" /\ app'.fn = "rotateStepper" /\ app' # app) =>
          /\ app.st # "returned"
          /\ Issued' = Issued + 1
          /\ \A k \in 1..4 : k # app.pin => level'[PhaseGpio(k)] = level[PhaseGpio(k)]
          /\ level'[servo_gpio] = level[servo_gpio]
          /\ app'.wret = 0 => level'[PhaseGpio(app.pin)] = ClaimedValue
          /\ app'.wret # 0 => level'[PhaseGpio(app.pin)] = level[PhaseGpio(app.pin)]
          /\ app.st = "step" => applied' = Record(applied, app.pin, ClaimedValue)
          /\ app.st = "reset" => applied' = applied]_vars
  /\ [](RotateReturned =>
          /\ Issued = 4 * app.steps + 4
          /\ Len(applied) = app.steps
          /\ \A k \in 1..Len(applied) :
                applied[k] = stepSequence[ClaimedRow(k - 1, app.clockwise) + 1])

\* C21 witness: in a clockwise call of one step the write of 1 to phase 3
\* failed, and the final pass has reached phase 2.
C21_Witness ==
  /\ app.fn = "rotateStepper" /\ app.st = "reset" /\ app.pin = 3
  /\ app.steps = 1 /\ app.clockwise
  /\ applied = << <<1, 0, 0, 1>> >>
  /\ level[PhaseGpio(4)] = 0
  /\ level[PhaseGpio(1)] = 0


\* how many of the four phases a quadruple has high
HighCount(quad) == Cardinality({ k \in 1..4 : quad[k] = 1 })

\* in how many phases two quadruples differ
Differing(p, q) == Cardinality({ k \in 1..4 : p[k] # q[k] })

\* a step of the call in progress has just been completed
StepCompleted ==
  /\ app.fn = "rotateStepper"
  /\ app.st \in {"step", "reset"}
  /\ app.pin = 1
  /\ app.i > 0

C23_WriteFrame ==
  /\ [][(sys.op = "none" /\ sys'.op = "write" /\ IsPhaseMinor(sys'.minor)
           /\ sys'.ret >= 0) =>
          /\ \A l \in Lines :
                l # STEPPER_GPIO_BASE + (sys'.minor - 1) => level'[l] = level[l]
          /\ servo_angle' = servo_angle
          /\ pulse' = pulse]_vars
  /\ [][(/\ (sys.op = "write" /\ sys.minor = 0) \/ (sys'.op = "write" /\ sys'.minor = 0)
         /\ sys' # sys \/ pulse' # pulse) =>
          \A l \in PhaseLines : level'[l] = level[l]]_vars
  /\ [][(sys.op = "none" /\ sys'.op = "write" /\ sys'.ret < 0 /\ sys'.ret # PENDING) =>
          (level' = level /\ servo_angle' = servo_angle /\ pulse' = pulse)]_vars

\* C23 witness: with the servo at 90 and phases 0 and 2 high, a write of 0
\* to endpoint 3 has returned; phase 0 is still high.
C23_Witness ==
  /\ sys.op = "write" /\ sys.minor = 3 /\ sys.ubuf = <<"0">> /\ sys.ret = 1
  /\ before.level[PhaseGpio(3)] = 1
  /\ level[PhaseGpio(3)] = 0
  /\ level[PhaseGpio(1)] = 1
  /\ servo_angle = 90


(***************************************************************************)
(* Claim about the servo pulse (specification SpecServo)                   *)
(***************************************************************************)
\* a servo write is in progress
ServoWriting == sys.op = "write" /\ sys.minor = 0 /\ sys.ret = PENDING

\* C24: a successful servo write drives the servo line high, waits duty,
\* drives it low, waits period - duty and then assigns servo_angle, each once
\* and in this order; the servo line is low whenever no servo write is in
\* progress, and servo_angle keeps the old angle until the pulse is over.
C24_PulseOrder ==
  /\ [](/\ pulse.st = "high" =>
              (ServoWriting /\ level[servo_gpio] = 1
                 /\ servo_angle = before.servo_angle)
        /\ pulse.st = "low" =>
              (ServoWriting /\ level[servo_gpio] = 0
                 /\ servo_angle = before.servo_angle)
        /\ pulse.st = "idle" => (~ServoWriting /\ level[servo_gpio] = 0))
  /\ [][pulse' # pulse =>
          \/ /\ pulse.st = "idle" /\ pulse'.st = "high"
             /\ sys.op = "none" /\ sys'.op = "write" /\ sys'.minor = 0
             /\ kstrtoint(sys'.ubuf) = [ok |-> TRUE, val |-> pulse'.value]
             /\ servo_angle' = servo_angle
          \/ /\ pulse.st = "high" /\ pulse'.st = "low"
             /\ pulse'.value = pulse.value /\ pulse'.duty = pulse.duty
             /\ servo_angle' = servo_angle
             /\ sys' = sys
          \/ /\ pulse.st = "low" /\ pulse'.st = "idle"
             /\ servo_angle' = pulse.value
             /\ sys'.ret = Len(sys.ubuf)]_vars
  /\ [][(servo_angle' # servo_angle \/ level'[servo_gpio] # level[servo_gpio]) =>
          pulse' # pulse]_vars

\* C24 witness: the servo stands at 45 while the pulse of a write of 90 is in
\* its low time.
C24_Witness ==
  /\ pulse.st = "low" /\ pulse.value = 90 /\ pulse.duty = 1500
  /\ servo_angle = 45
  /\ level[servo_gpio] = 0
  /\ ServoWriting


(***************************************************************************)
(* Claim about the state after attach (specification Spec)                 *)
(***************************************************************************)
\* C25: when plat_drv_probe has returned 0 the driver owns all five lines,
\* endpoints 0..4 are registered and every line is low; while the driver is
\* attached a line changes its level only in a write.
C25_AttachedLow ==
  /\ [](drv = "bound" => (OwnedLines = Lines /\ endpoints = Minors))
  /\ [][(drv # "bound" /\ drv' = "bound") => \A l \in Lines : level'[l] = 0]_vars
  /\ [][(drv = "bound" /\ drv' = "bound" /\ level' # level) =>
          \/ sys.op = "none" /\ sys'.op = "write"
          \/ sys.op = "write" /\ pulse' # pulse]_vars


(***************************************************************************)
(* Specification SpecLong: the serial line delivers lines of any length,   *)
(* shorter and longer than the 255 characters fgets reads at once.         *)
(***************************************************************************)
MaxLongLines == 1

\* a line whose first LINE_SIZE - 1 characters are a command followed by
\* blanks, and whose remainder is a second command
Doubled(first, second) ==
  SUN_DIR \o first
  \o Repeat(" ", (LINE_SIZE - 1) - Len(SUN_DIR) - Len(first))
  \o SunDirLine(second)

LongInputs ==
  { SunDirLine(Op), SunDirLine(Venstre), SunDirLine(Ukendt),
    LongLine(LINE_SIZE),
    SunDirLine(Op \o Repeat(" ", LINE_SIZE)),
    Repeat(" ", LINE_SIZE - 1) \o SunDirLine(Ned),
    Doubled(Ukendt, Ukendt),
    Doubled(Op, Ned),
    Doubled(Venstre, Hojre) }

\* how many newline-terminated lines the bytes hold
LinesIn(bytes) == Cardinality({ k \in 1..Len(bytes) : bytes[k] = "\n" })

NextLong ==
  \/ \E ok \in BOOLEAN : MainFopen(ok)
  \/ /\ mainpc = "fgets"
     /\ stream = <<>>
     /\ LinesIn(Flatten(consumed)) < MaxLongLines
     /\ \E bytes \in LongInputs : SerialArrive(bytes)
  \/ ControllerStep

SpecLong == InitMain /\ [][NextLong]_vars

\* C26: the motor actions dispatched are never more than the
\* newline-terminated lines delivered, whatever their length: a line results
\* in at most one action.
C26_OneActionPerLongLine ==
  Len(actions) <= LinesIn(Delivered)


(***************************************************************************)
(* Claim about the writes of the controller (specification SpecMain)       *)
(***************************************************************************)
\* the payload of the phase write the call in progress makes next
NextPinPayload ==
  PinBuffer(IF app.st = "step"
            THEN stepSequence[StepIndex(app.i, app.clockwise) + 1][app.pin]
            ELSE 0)

\* C27: every write of the controller goes to an endpoint 0..4, carries 90
\* or 45 to endpoint 0 and 0 or 1 to endpoints 1..4, and with the driver
\* attached none is refused: every write returns the length of its payload
\* and moveServo and writeStepperPin never return -1.
C27_WritesWellFormed ==
  /\ [](sys.op # "none" =>
          /\ sys.op = "write"
          /\ sys.minor = 0
          /\ sys.ubuf \in { <<"9", "0">>, <<"4", "5">> }
          /\ sys.ret \in {PENDING, Len(sys.ubuf)})
  /\ [](app.fn = "moveServo" =>
          /\ app.angle \in {90, 45}
          /\ app.st = "returned" => fnret = 0)
  /\ [][(app.fn = "rotateStepper" /\ app'.fn = "rotateStepper" /\ app' # app) =>
          /\ app.pin \in 1..4
          /\ app.pin \in endpoints
          /\ NextPinPayload \in { <<"0">>, <<"1">> }
          /\ gpio_write(app.pin, NextPinPayload, FALSE).ret = Len(NextPinPayload)
          /\ app'.wret = 0]_vars

\* C27 witness: after Ned has tilted to 45, the last phase write of the last
\* step of the rotate for Hojre is about to be made.
C27_Witness ==
  /\ consumed = << SunDirLine(Ned), SunDirLine(Hojre) >>
  /\ servo_angle = 45
  /\ app.fn = "rotateStepper" /\ app.st = "step"
  /\ app.i = STEPPER_STEPS - 1 /\ app.pin = 4
  /\ app.wret = 0


(***************************************************************************)
(* Claim about successive rotate calls (specification SpecRotate)          *)
(***************************************************************************)
\* the quadruples of a call as (steps, direction) alone determine them
RowsOf(steps, clockwise) ==
  [k \in 1..steps |-> stepSequence[(IF clockwise THEN (k - 1) % 4
                                    ELSE 3 - ((k - 1) % 4)) + 1]]

\* C28: what a rotate call writes depends on (steps, direction) only: every
\* call, the first and every later one, starts at row 0 when clockwise and at
\* row 3 when counter-clockwise, whatever row the call before it stopped at,
\* and two calls with the same arguments write the same.
C28_NoIndexPersists ==
  /\ \A a \in 1..Len(recorded) :
        /\ Len(recorded[a].rows) = recorded[a].steps
        /\ \A k \in 1..recorded[a].steps :
              recorded[a].rows[k] = RowsOf(recorded[a].steps, recorded[a].clockwise)[k]
        /\ recorded[a].steps > 0 =>
              recorded[a].rows[1] = IF recorded[a].clockwise
                                    THEN <<1, 0, 0, 1>> ELSE <<0, 0, 1, 1>>
  /\ \A a, b \in 1..Len(recorded) :
        (recorded[a].steps = recorded[b].steps
           /\ recorded[a].clockwise = recorded[b].clockwise) =>
          recorded[a].rows = recorded[b].rows
  /\ (app.fn = "rotateStepper" /\ Len(applied) > 0 /\ Len(applied[1]) = 4) =>
        applied[1] = IF app.clockwise THEN <<1, 0, 0, 1>> ELSE <<0, 0, 1, 1>>

\* C28 witness: a clockwise call of 3 steps stopped at row 2, and the
\* counter-clockwise call of 5 steps after it began at row 3.
C28_Witness ==
  /\ Len(recorded) = 2
  /\ recorded[1].steps = 3 /\ recorded[1].clockwise
  /\ recorded[1].rows[3] = <<0, 1, 1, 0>>
  /\ recorded[2].steps = 5 /\ ~recorded[2].clockwise
  /\ recorded[2].rows[1] = <<0, 0, 1, 1>>


(***************************************************************************)
(* A second process calling rotateStepper (main.c 105-134), its writes     *)
(* interleaved with those of the first.                                    *)
(***************************************************************************)
\* rotateStepper(steps, clockwise) is entered in the second process
PeerCall(steps, clockwise) ==
  /\ peer = Idle
  /\ peer' = [fn |-> "rotateStepper", steps |-> steps, clockwise |-> clockwise,
              i |-> 0, pin |-> 1, wret |-> 0,
              st |-> IF 0 < steps THEN "step" ELSE "reset"]
  /\ UNCHANGED <<level, servo_angle, pulse, sys>>
  /\ UNCHANGED <<drv, probe_i, err, endpoints, owner>>
  /\ UNCHANGED <<app, fnret, applied, stream, line, actions, mainpc, consumed,
                 recorded, before>>

\* one writeStepperPin of its loop body
PeerStepWrite ==
  /\ peer # Idle
  /\ peer.st = "step"
  /\ sys.op = "none"
  /\ CanOpen(peer.pin)
  /\ \E value \in {stepSequence[StepIndex(peer.i, peer.clockwise) + 1][peer.pin]} :
     \E ubuf \in {PinBuffer(value)} :
        /\ GpioWrite(peer.pin, ubuf, FALSE)
        /\ peer' = IF peer.pin < 4
                   THEN [peer EXCEPT !.pin = peer.pin + 1,
                                     !.wret = writeStepperPinRet(peer.pin, value, TRUE)]
                   ELSE [peer EXCEPT !.pin = 1, !.i = peer.i + 1,
                                     !.wret = writeStepperPinRet(peer.pin, value, TRUE),
                                     !.st = IF peer.i + 1 < peer.steps
                                            THEN "step" ELSE "reset"]
  /\ UNCHANGED sys
  /\ UNCHANGED <<drv, probe_i, err, endpoints, owner>>
  /\ UNCHANGED <<app, fnret, applied, stream, line, actions, mainpc, consumed,
                 recorded, before>>

\* one writeStepperPin(.., 0) of its resetStepper
PeerResetWrite ==
  /\ peer # Idle
  /\ peer.st = "reset"
  /\ sys.op = "none"
  /\ CanOpen(peer.pin)
  /\ \E ubuf \in {PinBuffer(0)} : GpioWrite(peer.pin, ubuf, FALSE)
  /\ peer' = IF peer.pin < 4
             THEN [peer EXCEPT !.pin = peer.pin + 1,
                               !.wret = writeStepperPinRet(peer.pin, 0, TRUE)]
             ELSE [peer EXCEPT !.st = "returned",
                               !.wret = writeStepperPinRet(peer.pin, 0, TRUE)]
  /\ UNCHANGED sys
  /\ UNCHANGED <<drv, probe_i, err, endpoints, owner>>
  /\ UNCHANGED <<app, fnret, applied, stream, line, actions, mainpc, consumed,
                 recorded, before>>

\* the second process goes on after its call has returned
PeerResume ==
  /\ peer # Idle
  /\ peer.st = "returned"
  /\ peer' = Idle
  /\ UNCHANGED <<level, servo_angle, pulse, sys>>
  /\ UNCHANGED <<drv, probe_i, err, endpoints, owner>>
  /\ UNCHANGED <<app, fnret, applied, stream, line, actions, mainpc, consumed,
                 recorded, before>>

(***************************************************************************)
(* Specification SpecRotatePair: the driver is attached, every open        *)
(* succeeds, and two processes call rotateStepper at any time.             *)
(***************************************************************************)
MaxPairSteps == 2

NextRotatePair ==
  \/ TestIdle /\ \E steps \in 0..MaxPairSteps, clockwise \in BOOLEAN :
                    CallRotate(steps, clockwise)
  \/ \E steps \in 0..MaxPairSteps, clockwise \in BOOLEAN : PeerCall(steps, clockwise)
  \/ StepWrite(TRUE)
  \/ ResetWrite(TRUE)
  \/ Resume
  \/ PeerStepWrite
  \/ PeerResetWrite
  \/ PeerResume

SpecRotatePair == InitRotate /\ [][NextRotatePair]_vars

PeerReturned == peer # Idle /\ peer.st = "returned"

\* C29: when two callers run rotate concurrently, their phase writes
\* interleaved in any order and every write succeeding, all four phase lines
\* are 0 whenever both calls have returned.
C29_BothReturnedLow ==
  (RotateReturned /\ PeerReturned) => \A l \in PhaseLines : level[l] = 0

\* C29 witness: a clockwise and a counter-clockwise call of two steps have
\* both returned.
C29_Witness ==
  /\ RotateReturned /\ app.steps = 2 /\ app.clockwise
  /\ PeerReturned /\ peer.steps = 2 /\ ~peer.clockwise
  /\ app.wret = 0 /\ peer.wret = 0


(***************************************************************************)
(* Claim about the phases high at once (SpecRotate, SpecRotateFail)        *)
(***************************************************************************)
\* C30: during rotate calls by a single caller, starting from all phase
\* lines low, at no moment are all four phase lines high, the moments between
\* the four writes of a step included: at most three are high at once.
C30_NeverAllHigh ==
  HighCount(PhaseLevels) <= 3

=============================================================================
